---- MODULE Spec2Model ----
(***************************************************************************)
(* NetDecker: the card ledger (proxy_cards), the allocation engine, the    *)
(* decklist store (decklists, deck_entries) and the deck management        *)
(* workflow, as a state machine over the three tables.                     *)
(***************************************************************************)
EXTENDS Integers, Sequences, FiniteSets, TLC

VARIABLES proxy_cards, decklists, deck_entries, last

vars == <<proxy_cards, decklists, deck_entries, last>>

(***************************************************************************)
(* Bounds of the model.                                                    *)
(***************************************************************************)
\* largest quantity of one entry of a card_quantities argument
MaxQty == 2
\* largest quantity_owned a guard lets a card reach
MaxOwned == 3
\* largest number of entries of a card_quantities argument
MaxLen == 2

\* Card names: names that differ in letter case only are different cards.
CardNames == {"Bolt", "bolt", "Will"}

\* The card names of the arguments of the inventory commands.
ArgNames == {"Bolt", "Will"}

\* One item of a dict[str, int]: (card name, quantity).
DictItems == [name : ArgNames, qty : 0..MaxQty]

\* dict[str, int] arguments: the items in insertion order, keys distinct.
Dicts ==
  {d \in UNION {[1..n -> DictItems] : n \in 0..MaxLen} :
     \A i, j \in DOMAIN d : i # j => d[i].name # d[j].name}

\* The keys of a dict.
Keys(d) == {d[i].name : i \in DOMAIN d}

\* dict.get(name, 0)
Get(d, name) ==
  IF name \in Keys(d)
  THEN (CHOOSE it \in {d[i] : i \in DOMAIN d} : it.name = name).qty
  ELSE 0

\* The empty proxy_cards table.
NoCards == [n \in {} |-> [quantity_owned |-> 0, quantity_available |-> 0]]

(***************************************************************************)
(* CardInventoryService                                                    *)
(***************************************************************************)
\* Faulty variant of upsert_stmt: on conflict only quantity_owned grows.
upsert_stmt_owned_only(cards, name, qty) ==
  IF name \in DOMAIN cards
  THEN [cards EXCEPT ![name].quantity_owned = @ + qty]
  ELSE [n \in DOMAIN cards \cup {name} |->
          IF n = name
          THEN [quantity_owned |-> qty, quantity_available |-> qty]
          ELSE cards[n]]

\* One upsert statement of add_cards: insert, or on conflict add to both columns.
upsert_stmt(cards, name, qty) ==
  IF name \in DOMAIN cards
  THEN [cards EXCEPT ![name] =
          [quantity_owned |-> @.quantity_owned + qty,
           quantity_available |-> @.quantity_available + qty]]
  ELSE [n \in DOMAIN cards \cup {name} |->
          IF n = name
          THEN [quantity_owned |-> qty, quantity_available |-> qty]
          ELSE cards[n]]

RECURSIVE add_loop(_, _, _)
\* The loop of add_cards from item i on.
add_loop(cards, card_quantities, i) ==
  IF i > Len(card_quantities)
  THEN cards
  ELSE add_loop(upsert_stmt(cards, card_quantities[i].name, card_quantities[i].qty),
                card_quantities, i + 1)

\* add_cards: the table after the transaction.
add_cards(cards, card_quantities) == add_loop(cards, card_quantities, 1)

\* Faulty variant of remove_one: quantity_available is not clamped.
remove_one_no_clamp(cards, name, remove_count) ==
  [cards EXCEPT ![name].quantity_owned = @ - remove_count]

\* Faulty variant of remove_one: quantity_available always follows quantity_owned.
remove_one_reset(cards, name, remove_count) ==
  [cards EXCEPT ![name] =
     [quantity_owned |-> @.quantity_owned - remove_count,
      quantity_available |-> @.quantity_owned - remove_count]]

\* The two assignments of remove_cards on a card that is present and has enough.
remove_one(cards, name, remove_count) ==
  LET owned == cards[name].quantity_owned - remove_count
      avail == cards[name].quantity_available
  IN [cards EXCEPT ![name] =
        [quantity_owned |-> owned,
         quantity_available |-> IF owned < avail THEN owned ELSE avail]]

RECURSIVE remove_loop(_, _, _)
\* The loop of remove_cards from item i on: the session's rows and whether
\* CardInsufficientQuantityError was raised.
remove_loop(cards, card_quantities, i) ==
  IF i > Len(card_quantities)
  THEN [cards |-> cards, raised |-> FALSE]
  ELSE LET name == card_quantities[i].name
           remove_count == card_quantities[i].qty
       IN IF name \notin DOMAIN cards
          THEN remove_loop(cards, card_quantities, i + 1)
          ELSE IF remove_count > cards[name].quantity_owned
               THEN [cards |-> cards, raised |-> TRUE]
               ELSE remove_loop(remove_one(cards, name, remove_count),
                                card_quantities, i + 1)

\* Faulty variant of remove_cards: what the loop did before the raise is kept.
remove_cards_no_rollback(cards, card_quantities) ==
  remove_loop(cards, card_quantities, 1)

\* remove_cards inside Session.begin(): commit on return, rollback on raise.
remove_cards(cards, card_quantities) ==
  LET r == remove_loop(cards, card_quantities, 1)
  IN IF r.raised
     THEN [cards |-> cards, raised |-> TRUE]
     ELSE [cards |-> r.cards, raised |-> FALSE]

\* get_available_quantity
get_available_quantity(cards, name) ==
  IF name \in DOMAIN cards THEN cards[name].quantity_available ELSE 0

\* get_owned_quantity
get_owned_quantity(cards, name) ==
  IF name \in DOMAIN cards THEN cards[name].quantity_owned ELSE 0

(***************************************************************************)
(* CardAllocationService                                                   *)
(***************************************************************************)
\* Faulty variant of allocate_available: a short card is over-allocated.
allocate_available_unchecked(available, quantity_needed) ==
  available - quantity_needed

\* quantity_available after allocating quantity_needed of a card that exists.
allocate_available(available, quantity_needed) ==
  IF available < quantity_needed THEN 0 ELSE available - quantity_needed

RECURSIVE allocate_loop(_, _, _, _)
\* The loop of allocate_cards from item i on: the rows and insufficient_cards.
allocate_loop(cards, card_quantities, i, insufficient_cards) ==
  IF i > Len(card_quantities)
  THEN [cards |-> cards, insufficient_cards |-> insufficient_cards]
  ELSE LET name == card_quantities[i].name
           quantity_needed == card_quantities[i].qty
       IN IF name \notin DOMAIN cards
          THEN allocate_loop(cards, card_quantities, i + 1,
                 Append(insufficient_cards, [name |-> name, qty |-> quantity_needed]))
          ELSE allocate_loop(
                 [cards EXCEPT ![name].quantity_available =
                    allocate_available(@, quantity_needed)],
                 card_quantities, i + 1,
                 IF cards[name].quantity_available < quantity_needed
                 THEN Append(insufficient_cards,
                             [name |-> name,
                              qty |-> quantity_needed - cards[name].quantity_available])
                 ELSE insufficient_cards)

\* Faulty variant of allocate_cards: what is short is added to the ledger
\* before the allocation, as apply_deck_update does around its own call.
allocate_cards_buying(cards, card_quantities) ==
  [cards |-> allocate_loop(
               add_cards(cards, allocate_loop(cards, card_quantities, 1, <<>>).insufficient_cards),
               card_quantities, 1, <<>>).cards,
   insufficient_cards |-> allocate_loop(cards, card_quantities, 1, <<>>).insufficient_cards]

\* allocate_cards: the table after the transaction and the returned dict.
allocate_cards(cards, card_quantities) ==
  allocate_loop(cards, card_quantities, 1, <<>>)

RECURSIVE release_loop(_, _, _)
\* The loop of release_cards from item i on.
release_loop(cards, card_quantities, i) ==
  IF i > Len(card_quantities)
  THEN [cards |-> cards, raised |-> FALSE]
  ELSE LET name == card_quantities[i].name
           quantity == card_quantities[i].qty
       IN IF name \notin DOMAIN cards
          THEN release_loop(cards, card_quantities, i + 1)
          ELSE LET new_available == cards[name].quantity_available + quantity
               IN IF new_available > cards[name].quantity_owned
                  THEN [cards |-> cards, raised |-> TRUE]
                  ELSE release_loop(
                         [cards EXCEPT ![name].quantity_available = new_available],
                         card_quantities, i + 1)

\* Faulty variant of release_cards: what the loop did before the raise is kept.
release_cards_no_rollback(cards, card_quantities) ==
  release_loop(cards, card_quantities, 1)

\* release_cards inside Session.begin(): commit on return, rollback on raise.
release_cards(cards, card_quantities) ==
  LET r == release_loop(cards, card_quantities, 1)
  IN IF r.raised
     THEN [cards |-> cards, raised |-> TRUE]
     ELSE [cards |-> r.cards, raised |-> FALSE]

(***************************************************************************)
(* The ledger under its four service calls (SpecLedger).  last records the *)
(* call: its name, its argument, the table before it and what it returned. *)
(***************************************************************************)
NoDecklists == [d \in {} |-> [name |-> "", format |-> "", url |-> ""]]

NoEntries == [d \in {} |-> <<>>]

Call(op, card_quantities, before, raised, returned) ==
  [op |-> op, cards |-> card_quantities, before |-> before,
   raised |-> raised, returned |-> returned]

InitLedger ==
  /\ proxy_cards = NoCards
  /\ decklists = NoDecklists
  /\ deck_entries = NoEntries
  /\ last = Call("none", <<>>, NoCards, FALSE, <<>>)

\* Every card the call would leave stays within the model's bound on owned.
WithinBound(cards) == \A n \in DOMAIN cards : cards[n].quantity_owned <= MaxOwned

LedgerAdd ==
  \E cq \in Dicts :
    /\ WithinBound(add_cards(proxy_cards, cq))
    /\ proxy_cards' = add_cards(proxy_cards, cq)
    /\ last' = Call("add", cq, proxy_cards, FALSE, <<>>)
    /\ UNCHANGED <<decklists, deck_entries>>

LedgerRemove ==
  \E cq \in Dicts :
    \E r \in {remove_cards(proxy_cards, cq)} :
       /\ proxy_cards' = r.cards
       /\ last' = Call("remove", cq, proxy_cards, r.raised, <<>>)
       /\ UNCHANGED <<decklists, deck_entries>>

LedgerAllocate ==
  \E cq \in Dicts :
    \E r \in {allocate_cards(proxy_cards, cq)} :
       /\ proxy_cards' = r.cards
       /\ last' = Call("allocate", cq, proxy_cards, FALSE, r.insufficient_cards)
       /\ UNCHANGED <<decklists, deck_entries>>

LedgerRelease ==
  \E cq \in Dicts :
    \E r \in {release_cards(proxy_cards, cq)} :
       /\ proxy_cards' = r.cards
       /\ last' = Call("release", cq, proxy_cards, r.raised, <<>>)
       /\ UNCHANGED <<decklists, deck_entries>>

NextLedger == LedgerAdd \/ LedgerRemove \/ LedgerAllocate \/ LedgerRelease

SpecLedger == InitLedger /\ [][NextLedger]_vars

(***************************************************************************)
(* Claims about the ledger.                                                *)
(***************************************************************************)
\* The ledger invariant of one table.
LedgerOk(cards) ==
  \A n \in DOMAIN cards :
    /\ 0 <= cards[n].quantity_available
    /\ cards[n].quantity_available <= cards[n].quantity_owned

\* C1: after every add, remove, allocate or release call with non-negative
\* quantities, starting from the empty ledger, every card has
\* 0 <= quantity_available <= quantity_owned, whether the call failed or not.
C1_LedgerInvariant == LedgerOk(proxy_cards)

\* C1 witness: a card partly allocated after a call that raised.
C1_Witness ==
  /\ last.raised
  /\ \E n \in DOMAIN proxy_cards :
       /\ proxy_cards[n].quantity_available > 0
       /\ proxy_cards[n].quantity_available < proxy_cards[n].quantity_owned

\* The items of a call's argument.
Items(d) == {d[i] : i \in DOMAIN d}

\* C6: allocate handles each requested card as follows: a card absent from the
\* ledger is reported short by the full requested quantity and is not created;
\* when available < requested the shortage is requested - available and
\* available becomes 0; otherwise available decreases by requested and the
\* card is not in the returned map.  quantity_owned never changes, no reported
\* shortage is negative and available never goes below zero.
C6_Allocate ==
  last.op = "allocate" =>
    /\ ~last.raised
    /\ DOMAIN proxy_cards = DOMAIN last.before
    /\ Keys(last.returned) \subseteq Keys(last.cards)
    /\ \A it \in Items(last.returned) : it.qty >= 0
    /\ \A n \in DOMAIN proxy_cards :
         /\ proxy_cards[n].quantity_owned = last.before[n].quantity_owned
         /\ proxy_cards[n].quantity_available >= 0
    /\ \A it \in Items(last.cards) :
         IF it.name \notin DOMAIN last.before
         THEN /\ it.name \in Keys(last.returned)
              /\ Get(last.returned, it.name) = it.qty
         ELSE IF last.before[it.name].quantity_available < it.qty
         THEN /\ it.name \in Keys(last.returned)
              /\ Get(last.returned, it.name) =
                   it.qty - last.before[it.name].quantity_available
              /\ proxy_cards[it.name].quantity_available = 0
         ELSE /\ it.name \notin Keys(last.returned)
              /\ proxy_cards[it.name].quantity_available =
                   last.before[it.name].quantity_available - it.qty

\* C6 witness: one allocate call that meets an absent card and a card of which
\* something, but not enough, is available.
C6_Witness ==
  /\ last.op = "allocate"
  /\ \E a, b \in Items(last.cards) :
       /\ a.name \notin DOMAIN last.before
       /\ a.qty > 0
       /\ b.name \in DOMAIN last.before
       /\ last.before[b.name].quantity_available > 0
       /\ last.before[b.name].quantity_available < b.qty

\* Whether release of card_quantities from table cards must fail.
ReleaseExceeds(cards, card_quantities) ==
  \E it \in Items(card_quantities) :
    /\ it.name \in DOMAIN cards
    /\ cards[it.name].quantity_available + it.qty > cards[it.name].quantity_owned

\* C7: release fails with InsufficientQuantity whenever, for some existing
\* card of the map, available + quantity would exceed owned, and then the
\* ledger is unchanged for every card, the ones before the failing one
\* included.  Cards that do not exist are skipped without error.
C7_Release ==
  last.op = "release" =>
    /\ last.raised = ReleaseExceeds(last.before, last.cards)
    /\ last.raised => proxy_cards = last.before
    /\ DOMAIN proxy_cards = DOMAIN last.before
    /\ ~last.raised =>
         \A n \in DOMAIN proxy_cards :
           /\ proxy_cards[n].quantity_owned = last.before[n].quantity_owned
           /\ proxy_cards[n].quantity_available =
                last.before[n].quantity_available + Get(last.cards, n)

\* C7 witness: a release that raised on its second card after a first card
\* that could be released, and a release that skipped an absent card.
C7_Witness ==
  /\ last.op = "release"
  /\ last.raised
  /\ Len(last.cards) = 2
  /\ last.cards[1].name \in DOMAIN last.before
  /\ last.cards[1].qty > 0
  /\ last.before[last.cards[1].name].quantity_available + last.cards[1].qty
       <= last.before[last.cards[1].name].quantity_owned

\* Whether remove of card_quantities from table cards must fail.
RemoveExceeds(cards, card_quantities) ==
  \E it \in Items(card_quantities) :
    /\ it.name \in DOMAIN cards
    /\ it.qty > cards[it.name].quantity_owned

\* The smaller of two numbers.
Min(a, b) == IF a < b THEN a ELSE b

\* C8: remove, when no requested quantity exceeds the card's owned quantity,
\* decrements quantity_owned of each existing card by the requested amount and
\* sets quantity_available to min(previous available, new owned); cards not in
\* the ledger are skipped without error and without creating a record; cards
\* not named in the map are unchanged.
C8_Remove ==
  (last.op = "remove" /\ ~RemoveExceeds(last.before, last.cards)) =>
    /\ ~last.raised
    /\ DOMAIN proxy_cards = DOMAIN last.before
    /\ \A n \in DOMAIN proxy_cards :
         /\ proxy_cards[n].quantity_owned =
              last.before[n].quantity_owned - Get(last.cards, n)
         /\ proxy_cards[n].quantity_available =
              Min(last.before[n].quantity_available, proxy_cards[n].quantity_owned)
         /\ n \notin Keys(last.cards) => proxy_cards[n] = last.before[n]

\* C8 witness: a remove that clamped the available quantity of one card,
\* left another card's available quantity alone and skipped no error.
C8_Witness ==
  /\ last.op = "remove"
  /\ ~last.raised
  /\ \E n \in DOMAIN proxy_cards :
       /\ Get(last.cards, n) > 0
       /\ proxy_cards[n].quantity_available < last.before[n].quantity_available
  /\ \E n \in DOMAIN proxy_cards :
       /\ Get(last.cards, n) > 0
       /\ proxy_cards[n].quantity_available = last.before[n].quantity_available
       /\ proxy_cards[n].quantity_available < proxy_cards[n].quantity_owned

\* C9: when remove fails with InsufficientQuantity because one card's
\* requested removal exceeds its owned quantity, the operation is aborted as a
\* whole: no card of the map, the ones listed before the failing one
\* included, has its owned or available quantity changed.
C9_RemoveAborts ==
  (last.op = "remove" /\ RemoveExceeds(last.before, last.cards)) =>
    /\ last.raised
    /\ proxy_cards = last.before

\* C9 witness: a remove that raised on its second card after a first card
\* that it could have removed.
C9_Witness ==
  /\ last.op = "remove"
  /\ last.raised
  /\ Len(last.cards) = 2
  /\ last.cards[1].name \in DOMAIN last.before
  /\ last.cards[1].qty > 0
  /\ last.cards[1].qty <= last.before[last.cards[1].name].quantity_owned

\* owned - available of a card, 0 for a card that has no record.
Allocated(cards, n) ==
  IF n \in DOMAIN cards
  THEN cards[n].quantity_owned - cards[n].quantity_available
  ELSE 0

\* C10: add is an upsert: an existing card has quantity_owned and
\* quantity_available both increased by the amount, an absent card is created
\* with quantity_owned = quantity_available = amount; add never fails and
\* leaves every card it does not name unchanged, so owned - available of every
\* card is the same before and after.
C10_Add ==
  last.op = "add" =>
    /\ ~last.raised
    /\ DOMAIN proxy_cards = DOMAIN last.before \cup Keys(last.cards)
    /\ \A n \in DOMAIN proxy_cards :
         IF n \in DOMAIN last.before
         THEN /\ proxy_cards[n].quantity_owned =
                   last.before[n].quantity_owned + Get(last.cards, n)
              /\ proxy_cards[n].quantity_available =
                   last.before[n].quantity_available + Get(last.cards, n)
         ELSE /\ proxy_cards[n].quantity_owned = Get(last.cards, n)
              /\ proxy_cards[n].quantity_available = Get(last.cards, n)
    /\ \A n \in CardNames : Allocated(proxy_cards, n) = Allocated(last.before, n)

\* C10 witness: one add call that grows a partly allocated card and creates
\* another card.
C10_Witness ==
  /\ last.op = "add"
  /\ \E a, b \in Items(last.cards) :
       /\ a.qty > 0
       /\ b.qty > 0
       /\ a.name \in DOMAIN last.before
       /\ last.before[a.name].quantity_available < last.before[a.name].quantity_owned
       /\ b.name \notin DOMAIN last.before

(***************************************************************************)
(* DecklistService.  decklists maps a deck id to its row; deck_entries     *)
(* maps a deck id to its DeckEntry rows in insertion order.                *)
(***************************************************************************)
\* largest deck id a guard lets create_decklist assign
MaxDeckId == 2

\* No deck: the None of a lookup that found nothing.
None == 0

\* The largest element of a non-empty set of numbers.
Max(S) == CHOOSE x \in S : \A y \in S : y <= x

\* Faulty variant of get_decklist: the query compares the URL of the row
\* with the format.
get_decklist_by_url(decks, name, format_name) ==
  {id \in DOMAIN decks : decks[id].name = name /\ decks[id].url = format_name}

\* get_decklist: the rows the query matches; first() returns one of them.
get_decklist(decks, name, format_name) ==
  {id \in DOMAIN decks : decks[id].name = name /\ decks[id].format = format_name}

\* get_decklist_by_name: the rows the query matches.
get_decklist_by_name(decks, name) ==
  {id \in DOMAIN decks : decks[id].name = name}

\* What first() may return for a set of matching rows.
first(matches) == IF matches = {} THEN {None} ELSE matches

\* get_decklist_cards: the deck's rows as a dict.
get_decklist_cards(entries, decklist_id) ==
  IF decklist_id \in DOMAIN entries THEN entries[decklist_id] ELSE <<>>

\* create_decklist: the new row gets the next rowid of the table.
create_decklist(decks, name, format_name, url) ==
  LET id == IF DOMAIN decks = {} THEN 1 ELSE Max(DOMAIN decks) + 1
  IN [id |-> id,
      decks |-> [d \in DOMAIN decks \cup {id} |->
                   IF d = id
                   THEN [name |-> name, format |-> format_name, url |-> url]
                   ELSE decks[d]]]

\* delete_decklist: a bulk DELETE of the decklists row; deck_entries has no
\* ON DELETE CASCADE and the bulk delete does not run the ORM cascade.
delete_decklist(decks, decklist_id) ==
  IF decklist_id \notin DOMAIN decks
  THEN [decks |-> decks, found |-> FALSE]
  ELSE [decks |-> [d \in DOMAIN decks \ {decklist_id} |-> decks[d]],
        found |-> TRUE]

\* Faulty variant of update_decklist_cards: the deck's rows are not deleted.
update_decklist_cards_appending(entries, decklist_id, new_card_list) ==
  IF get_decklist_cards(entries, decklist_id) \o new_card_list = <<>>
  THEN entries
  ELSE [d \in DOMAIN entries \cup {decklist_id} |->
          IF d = decklist_id
          THEN get_decklist_cards(entries, decklist_id) \o new_card_list
          ELSE entries[d]]

\* update_decklist_cards: delete the deck's rows, insert the new ones.
update_decklist_cards(entries, decklist_id, new_card_list) ==
  IF new_card_list = <<>>
  THEN [d \in DOMAIN entries \ {decklist_id} |-> entries[d]]
  ELSE [d \in DOMAIN entries \cup {decklist_id} |->
          IF d = decklist_id THEN new_card_list ELSE entries[d]]

\* update_decklist_url
update_decklist_url(decks, decklist_id, new_url) ==
  IF decklist_id \in DOMAIN decks
  THEN [decks EXCEPT ![decklist_id].url = new_url]
  ELSE decks

(***************************************************************************)
(* CardAllocationService, the calls that read deck_entries or only read.   *)
(***************************************************************************)
RECURSIVE release_decklist_loop(_, _, _)
\* The loop of release_decklist_allocation over the deck's rows.
release_decklist_loop(cards, rows, i) ==
  IF i > Len(rows)
  THEN cards
  ELSE release_decklist_loop(
         IF rows[i].name \in DOMAIN cards
         THEN [cards EXCEPT ![rows[i].name].quantity_available = @ + rows[i].qty]
         ELSE cards,
         rows, i + 1)

\* Faulty variant of release_decklist_allocation: only the first row of the
\* deck is released.
release_decklist_allocation_first_row(cards, entries, decklist_id) ==
  IF get_decklist_cards(entries, decklist_id) = <<>>
  THEN cards
  ELSE release_decklist_loop(cards, <<get_decklist_cards(entries, decklist_id)[1]>>, 1)

\* Faulty variant of release_decklist_allocation: nothing is released.
release_decklist_allocation_nothing(cards, entries, decklist_id) == cards

\* release_decklist_allocation: the table after the transaction.
release_decklist_allocation(cards, entries, decklist_id) ==
  release_decklist_loop(cards, get_decklist_cards(entries, decklist_id), 1)

RECURSIVE needed_loop(_, _, _, _)
\* The loop of calculate_needed_cards.
needed_loop(cards, required_cards, i, cards_needed) ==
  IF i > Len(required_cards)
  THEN cards_needed
  ELSE LET name == required_cards[i].name
           needed_quantity == required_cards[i].qty
       IN needed_loop(cards, required_cards, i + 1,
            IF name \notin DOMAIN cards
            THEN Append(cards_needed, [name |-> name, qty |-> needed_quantity])
            ELSE IF cards[name].quantity_available < needed_quantity
                 THEN Append(cards_needed,
                        [name |-> name,
                         qty |-> needed_quantity - cards[name].quantity_available])
                 ELSE cards_needed)

\* Faulty variant of calculate_needed_cards: it allocates what it finds.
calculate_needed_cards_allocating(cards, required_cards) ==
  [cards |-> allocate_cards(cards, required_cards).cards,
   cards_needed |-> allocate_cards(cards, required_cards).insufficient_cards]

\* calculate_needed_cards: a session that is never committed; the table after
\* the call and the returned dict.
calculate_needed_cards(cards, required_cards) ==
  [cards |-> cards, cards_needed |-> needed_loop(cards, required_cards, 1, <<>>)]

RECURSIVE feasibility_loop(_, _, _, _)
\* The loop of check_allocation_feasibility.
feasibility_loop(cards, card_quantities, i, insufficient_cards) ==
  IF i > Len(card_quantities)
  THEN insufficient_cards
  ELSE LET name == card_quantities[i].name
           quantity_needed == card_quantities[i].qty
       IN feasibility_loop(cards, card_quantities, i + 1,
            IF name \notin DOMAIN cards
            THEN Append(insufficient_cards, [name |-> name, qty |-> quantity_needed])
            ELSE IF cards[name].quantity_available < quantity_needed
                 THEN Append(insufficient_cards,
                        [name |-> name,
                         qty |-> quantity_needed - cards[name].quantity_available])
                 ELSE insufficient_cards)

\* Faulty variant of check_allocation_feasibility: a card that is short is
\* reported with the whole quantity asked for.
check_allocation_feasibility_whole(cards, card_quantities) ==
  [cards |-> cards,
   insufficient_cards |->
     SelectSeq(card_quantities,
               LAMBDA item : get_available_quantity(cards, item.name) < item.qty
                             \/ item.name \notin DOMAIN cards)]

\* check_allocation_feasibility: a session that is never committed; the table
\* after the call and the returned dict.
check_allocation_feasibility(cards, card_quantities) ==
  [cards |-> cards,
   insufficient_cards |-> feasibility_loop(cards, card_quantities, 1, <<>>)]

(***************************************************************************)
(* The ledger under its service calls, the two read-only ones included     *)
(* (SpecReads).                                                            *)
(***************************************************************************)
LedgerCalculateNeeded ==
  \E cq \in Dicts :
    \E r \in {calculate_needed_cards(proxy_cards, cq)} :
       /\ proxy_cards' = r.cards
       /\ last' = Call("calculate_needed", cq, proxy_cards, FALSE, r.cards_needed)
       /\ UNCHANGED <<decklists, deck_entries>>

LedgerCheckFeasibility ==
  \E cq \in Dicts :
    \E r \in {check_allocation_feasibility(proxy_cards, cq)} :
       /\ proxy_cards' = r.cards
       /\ last' = Call("check_feasibility", cq, proxy_cards, FALSE,
                       r.insufficient_cards)
       /\ UNCHANGED <<decklists, deck_entries>>

NextReads == NextLedger \/ LedgerCalculateNeeded \/ LedgerCheckFeasibility

SpecReads == InitLedger /\ [][NextReads]_vars

\* C11: check_allocation_feasibility and calculate_needed_cards return the
\* dict allocate_cards would return for the same request from the same table,
\* and leave the table as it was.
C11_ReadsAgreeWithAllocate ==
  last.op \in {"calculate_needed", "check_feasibility"} =>
    /\ last.returned = allocate_cards(last.before, last.cards).insufficient_cards
    /\ proxy_cards = last.before

\* C11 witness: a feasibility check of two cards, one without a record and
\* one partly available, from a table allocate_cards would change.
C11_Witness ==
  /\ last.op = "check_feasibility"
  /\ Len(last.returned) = 2
  /\ \E i \in 1..2 : last.returned[i].name \notin DOMAIN last.before
  /\ \E i \in 1..2 : /\ last.returned[i].name \in DOMAIN last.before
                     /\ last.returned[i].qty < Get(last.cards, last.returned[i].name)
  /\ allocate_cards(last.before, last.cards).cards # last.before

(***************************************************************************)
(* DeckManagementWorkflow                                                  *)
(***************************************************************************)
\* Faulty variant of lower: the name as it is.
lower_as_is(name) == name

\* str.lower() on the card names of the model.
lower(name) ==
  CASE name = "Bolt" -> "bolt"
    [] name = "Will" -> "will"
    [] OTHER -> name

\* dict assignment d[key] = value on a dict of normalized names: an existing
\* key keeps its position and gets the new value.
SetItem(d, key, name, qty) ==
  IF \E i \in DOMAIN d : d[i].key = key
  THEN [i \in DOMAIN d |->
          IF d[i].key = key THEN [key |-> key, name |-> name, qty |-> qty] ELSE d[i]]
  ELSE Append(d, [key |-> key, name |-> name, qty |-> qty])

RECURSIVE normalized(_, _, _)
\* {k.lower(): (k, v) for k, v in cards.items()}
normalized(cards, i, acc) ==
  IF i > Len(cards)
  THEN acc
  ELSE normalized(cards, i + 1,
                  SetItem(acc, lower(cards[i].name), cards[i].name, cards[i].qty))

\* The value of a normalized dict at a key it has.
At(d, key) == CHOOSE it \in {d[i] : i \in DOMAIN d} : it.key = key

\* Whether a normalized dict has the key.
Has(d, key) == \E i \in DOMAIN d : d[i].key = key

RECURSIVE swap_loop(_, _, _, _)
\* One loop of _calculate_swaps: the positive differences of side a over side b.
swap_loop(a, b, i, acc) ==
  IF i > Len(a)
  THEN acc
  ELSE swap_loop(a, b, i + 1,
         IF Has(b, a[i].key)
         THEN IF a[i].qty > At(b, a[i].key).qty
              THEN Append(acc, [name |-> a[i].name,
                                qty |-> a[i].qty - At(b, a[i].key).qty])
              ELSE acc
         ELSE Append(acc, [name |-> a[i].name, qty |-> a[i].qty]))

\* _calculate_swaps
calculate_swaps(current_cards, new_cards) ==
  LET current_normalized == normalized(current_cards, 1, <<>>)
      new_normalized == normalized(new_cards, 1, <<>>)
  IN [cards_to_add |-> swap_loop(new_normalized, current_normalized, 1, <<>>),
      cards_to_remove |-> swap_loop(current_normalized, new_normalized, 1, <<>>)]

\* _simulate_release
simulate_release(cards, cards_to_remove) ==
  [i \in DOMAIN cards_to_remove |->
     [name |-> cards_to_remove[i].name,
      qty |-> get_available_quantity(cards, cards_to_remove[i].name)
                + cards_to_remove[i].qty]]

RECURSIVE order_needs_loop(_, _, _, _, _)
\* The loop of _calculate_order_needs.
order_needs_loop(cards, cards_to_add, simulated_available, i, needs) ==
  IF i > Len(cards_to_add)
  THEN needs
  ELSE LET card_name == cards_to_add[i].name
           needed_qty == cards_to_add[i].qty
           simulated == Get(simulated_available, card_name)
           available == IF simulated = 0
                        THEN get_available_quantity(cards, card_name)
                        ELSE simulated
       IN order_needs_loop(cards, cards_to_add, simulated_available, i + 1,
            IF available < needed_qty
            THEN Append(needs, [name |-> card_name, qty |-> needed_qty - available])
            ELSE needs)

\* Faulty variant of _calculate_order_needs: a card that is short is ordered
\* with its whole quantity.
calculate_order_needs_whole(cards, cards_to_add, simulated_available) ==
  LET Short(it) == get_available_quantity(cards, it.name) < it.qty
  IN SelectSeq(cards_to_add, Short)

\* Faulty variant of _calculate_order_needs: every addition is ordered.
calculate_order_needs_all(cards, cards_to_add, simulated_available) == cards_to_add

\* _calculate_order_needs
calculate_order_needs(cards, cards_to_add, simulated_available) ==
  order_needs_loop(cards, cards_to_add, simulated_available, 1, <<>>)

\* A DeckUpdatePreview.
DeckUpdatePreview(name, format_name, cards_to_add, cards_to_remove, cards_to_order, errors, info_messages) ==
  [deck_name |-> name, deck_format |-> format_name,
   swaps |-> [cards_to_add |-> cards_to_add, cards_to_remove |-> cards_to_remove],
   cards_to_order |-> cards_to_order,
   errors |-> errors, info_messages |-> info_messages]

\* sum(d.values())
RECURSIVE SumFrom(_, _)
SumFrom(d, i) == IF i > Len(d) THEN 0 ELSE d[i].qty + SumFrom(d, i + 1)

Sum(d) == SumFrom(d, 1)

\* preview_deck_update: fetched is what fetch_decklist(url) does in this call
\* (ok and the cards, or an exception), existing_deck what get_decklist
\* returns.  The table after the call and the preview.
preview_deck_update(cards, entries, format_name, name, fetched, existing_deck) ==
  IF ~fetched.ok
  THEN [cards |-> cards,
        preview |-> DeckUpdatePreview(name, format_name, <<>>, <<>>, <<>>,
                      <<[text |-> "Error processing deck", n |-> 0]>>, <<>>)]
  ELSE IF existing_deck # None
  THEN LET current_cards == get_decklist_cards(entries, existing_deck)
           swaps == calculate_swaps(current_cards, fetched.cards)
           simulated_available == simulate_release(cards, swaps.cards_to_remove)
       IN [cards |-> cards,
           preview |-> DeckUpdatePreview(name, format_name,
                         swaps.cards_to_add, swaps.cards_to_remove,
                         calculate_order_needs(cards, swaps.cards_to_add,
                                               simulated_available),
                         <<>>, <<>>)]
  ELSE LET needed == calculate_needed_cards(cards, fetched.cards)
       IN [cards |-> needed.cards,
           preview |-> DeckUpdatePreview(name, format_name, fetched.cards, <<>>,
                         needed.cards_needed, <<>>, <<>>)]

\* Faulty variant of allocate_or_create: the retry allocates the whole deck.
allocate_or_create_retry_all(cards, new_cards) ==
  LET first_try == allocate_cards(cards, new_cards)
      insufficient == first_try.insufficient_cards
  IN IF insufficient = <<>>
     THEN [cards |-> first_try.cards, errors |-> <<>>, info_messages |-> <<>>]
     ELSE LET retry == allocate_cards(add_cards(first_try.cards, insufficient),
                                      new_cards)
          IN [cards |-> retry.cards,
              errors |-> IF retry.insufficient_cards # <<>>
                         THEN <<[text |-> "Warning: Could not fully allocate cards",
                                 n |-> Sum(retry.insufficient_cards)]>>
                         ELSE <<>>,
              info_messages |-> IF retry.insufficient_cards # <<>>
                                THEN <<>>
                                ELSE <<[text |-> "Info: Created proxy cards for allocation",
                                        n |-> Sum(insufficient)]>>]

\* Faulty variant of allocate_or_create: the cards that are short are added
\* and not allocated again.
allocate_or_create_no_retry(cards, new_cards) ==
  LET first_try == allocate_cards(cards, new_cards)
      insufficient == first_try.insufficient_cards
  IN IF insufficient = <<>>
     THEN [cards |-> first_try.cards, errors |-> <<>>, info_messages |-> <<>>]
     ELSE [cards |-> add_cards(first_try.cards, insufficient),
           errors |-> <<>>,
           info_messages |-> <<[text |-> "Info: Created proxy cards for allocation",
                                n |-> Sum(insufficient)]>>]

\* Faulty variant of allocate_or_create: the whole decklist is added to the
\* ledger when a card is short.
allocate_or_create_adding_all(cards, new_cards) ==
  LET first_try == allocate_cards(cards, new_cards)
      insufficient == first_try.insufficient_cards
  IN IF insufficient = <<>>
     THEN [cards |-> first_try.cards, errors |-> <<>>, info_messages |-> <<>>]
     ELSE LET retry == allocate_cards(add_cards(first_try.cards, new_cards),
                                      insufficient)
          IN [cards |-> retry.cards,
              errors |-> <<>>,
              info_messages |-> <<[text |-> "Info: Created proxy cards for allocation",
                                   n |-> Sum(insufficient)]>>]

\* The allocation block of apply_deck_update: allocate, and when cards are
\* short add them to the inventory and allocate the shortage again.
allocate_or_create(cards, new_cards) ==
  LET first_try == allocate_cards(cards, new_cards)
      insufficient == first_try.insufficient_cards
  IN IF insufficient = <<>>
     THEN [cards |-> first_try.cards, errors |-> <<>>, info_messages |-> <<>>]
     ELSE LET retry == allocate_cards(add_cards(first_try.cards, insufficient),
                                      insufficient)
          IN [cards |-> retry.cards,
              errors |-> IF retry.insufficient_cards # <<>>
                         THEN <<[text |-> "Warning: Could not fully allocate cards",
                                 n |-> Sum(retry.insufficient_cards)]>>
                         ELSE <<>>,
              info_messages |-> IF retry.insufficient_cards # <<>>
                                THEN <<>>
                                ELSE <<[text |-> "Info: Created proxy cards for allocation",
                                        n |-> Sum(insufficient)]>>]

\* Faulty variant of apply_changes: the deck's allocation is released before
\* the decklist is fetched.
apply_changes_release_first(cards, decks, entries, url, format_name, name, fetched, existing_deck, preview) ==
  IF ~fetched.ok
  THEN [cards |-> IF existing_deck # None
                  THEN release_decklist_allocation(cards, entries, existing_deck)
                  ELSE cards,
        decks |-> decks, entries |-> entries,
        preview |-> [preview EXCEPT !.errors =
                       Append(@, [text |-> "Error applying update", n |-> 0])]]
  ELSE IF existing_deck # None
  THEN LET released == release_decklist_allocation(cards, entries, existing_deck)
           done == allocate_or_create(released, fetched.cards)
       IN [cards |-> done.cards,
           decks |-> update_decklist_url(decks, existing_deck, url),
           entries |-> update_decklist_cards(entries, existing_deck, fetched.cards),
           preview |-> [preview EXCEPT !.errors = @ \o done.errors,
                                       !.info_messages = @ \o done.info_messages]]
  ELSE LET created == create_decklist(decks, name, format_name, url)
           done == allocate_or_create(cards, fetched.cards)
       IN [cards |-> done.cards,
           decks |-> created.decks,
           entries |-> update_decklist_cards(entries, created.id, fetched.cards),
           preview |-> [preview EXCEPT !.errors = @ \o done.errors,
                                       !.info_messages = @ \o done.info_messages]]

\* The try block of apply_deck_update: the second fetch and the mutations.
apply_changes(cards, decks, entries, url, format_name, name, fetched, existing_deck, preview) ==
  IF ~fetched.ok
  THEN [cards |-> cards, decks |-> decks, entries |-> entries,
        preview |-> [preview EXCEPT !.errors =
                       Append(@, [text |-> "Error applying update", n |-> 0])]]
  ELSE IF existing_deck # None
  THEN LET released == release_decklist_allocation(cards, entries, existing_deck)
           done == allocate_or_create(released, fetched.cards)
       IN [cards |-> done.cards,
           decks |-> update_decklist_url(decks, existing_deck, url),
           entries |-> update_decklist_cards(entries, existing_deck, fetched.cards),
           preview |-> [preview EXCEPT !.errors = @ \o done.errors,
                                       !.info_messages = @ \o done.info_messages]]
  ELSE LET created == create_decklist(decks, name, format_name, url)
           done == allocate_or_create(cards, fetched.cards)
       IN [cards |-> done.cards,
           decks |-> created.decks,
           entries |-> update_decklist_cards(entries, created.id, fetched.cards),
           preview |-> [preview EXCEPT !.errors = @ \o done.errors,
                                       !.info_messages = @ \o done.info_messages]]

\* Faulty variant of apply_deck_update: the preview's errors are not looked at.
apply_deck_update_unchecked(cards, decks, entries, url, format_name, name, fetched1, existing1, fetched2, existing2) ==
  LET first_step == preview_deck_update(cards, entries, format_name, name,
                                        fetched1, existing1)
  IN apply_changes(first_step.cards, decks, entries, url, format_name, name,
                   fetched2, existing2, first_step.preview)

\* apply_deck_update: fetched1 and existing1 are the fetch and the lookup of
\* the preview, fetched2 and existing2 those of the apply.
apply_deck_update(cards, decks, entries, url, format_name, name, fetched1, existing1, fetched2, existing2) ==
  LET first_step == preview_deck_update(cards, entries, format_name, name,
                                        fetched1, existing1)
  IN IF first_step.preview.errors # <<>>
     THEN [cards |-> first_step.cards, decks |-> decks, entries |-> entries,
           preview |-> first_step.preview]
     ELSE apply_changes(first_step.cards, decks, entries, url, format_name, name,
                        fetched2, existing2, first_step.preview)

(***************************************************************************)
(* deck_delete (cli/commands/deck.py)                                      *)
(***************************************************************************)
\* find_deck: the rows the lookup matches; no format means lookup by name.
find_deck(decks, name, format_name) ==
  IF format_name # ""
  THEN get_decklist(decks, name, format_name)
  ELSE get_decklist_by_name(decks, name)

RECURSIVE owned_of(_, _, _, _)
\* cards_to_remove of deck_delete: the owned quantity of each deck card that
\* has a record.
owned_of(cards, deck_cards, i, acc) ==
  IF i > Len(deck_cards)
  THEN acc
  ELSE owned_of(cards, deck_cards, i + 1,
         IF deck_cards[i].name \in DOMAIN cards
         THEN Append(acc, [name |-> deck_cards[i].name,
                           qty |-> cards[deck_cards[i].name].quantity_owned])
         ELSE acc)

\* Faulty variant of deck_delete: the deck is deleted with its cards still
\* allocated.
deck_delete_no_release(cards, decks, entries, deck, confirm, answer_delete, answer_proxies) ==
  IF deck = None
  THEN [cards |-> cards, decks |-> decks, message |-> "not found"]
  ELSE IF ~confirm /\ ~answer_delete
  THEN [cards |-> cards, decks |-> decks, message |-> "Cancelled"]
  ELSE [cards |-> cards, decks |-> delete_decklist(decks, deck).decks,
        message |-> "Deleted"]

\* deck_delete: deck is what find_deck returned, confirm the --confirm flag,
\* answer_delete and answer_proxies whether the two prompts are answered "y".
deck_delete(cards, decks, entries, deck, confirm, answer_delete, answer_proxies) ==
  IF deck = None
  THEN [cards |-> cards, decks |-> decks, message |-> "not found"]
  ELSE IF ~confirm /\ ~answer_delete
  THEN [cards |-> cards, decks |-> decks, message |-> "Cancelled"]
  ELSE LET deck_cards == get_decklist_cards(entries, deck)
           remove_proxy_cards == ~confirm /\ deck_cards # <<>> /\ answer_proxies
           released == release_decklist_allocation(cards, entries, deck)
           cards_to_remove == owned_of(released, deck_cards, 1, <<>>)
           removed == IF remove_proxy_cards /\ cards_to_remove # <<>>
                      THEN remove_cards(released, cards_to_remove).cards
                      ELSE released
           deleted == delete_decklist(decks, deck)
       IN [cards |-> removed, decks |-> deleted.decks,
           message |-> IF deleted.found THEN "Deleted" ELSE "Failed to delete"]

(***************************************************************************)
(* The system (Spec): the inventory commands, the workflow and deck        *)
(* deletion over the three tables.  last records the command and the       *)
(* messages of its result.                                                 *)
(***************************************************************************)
\* largest quantity_owned a guard of the system lets a card reach
MaxStock == 2

\* Every card stays within the system's bound on owned.
InStock(cards) == \A n \in DOMAIN cards : cards[n].quantity_owned <= MaxStock

\* What fetch_decklist returns in the model: the decklists a URL may hold.
Targets ==
  { <<>>,
    <<[name |-> "Bolt", qty |-> 2]>>,
    <<[name |-> "Bolt", qty |-> 1], [name |-> "Will", qty |-> 1]>> }

\* The card_entries of one proxy add or proxy remove command.
Entries == {d \in Dicts : Len(d) = 1 /\ d[1].name = "Bolt" /\ d[1].qty > 0}

\* The decks of the user, as a batch file or the arguments of a command give
\* them: the Modern deck has moved from one URL to another.
DeckConfigs ==
  { [name |-> "A", format |-> "Modern", url |-> "u1"],
    [name |-> "A", format |-> "Modern", url |-> "u2"],
    [name |-> "A", format |-> "Legacy", url |-> "u1"] }

\* The deck_configs lists of the batch commands.
BatchFiles ==
  { <<[name |-> "A", format |-> "Modern", url |-> "u1"],
      [name |-> "A", format |-> "Legacy", url |-> "u1"]>> }

\* The outcomes of one fetch_decklist call: a decklist or an exception.
Fetches == {[ok |-> TRUE, cards |-> t] : t \in Targets}
             \cup {[ok |-> FALSE, cards |-> <<>>]}

\* What last keeps of a command: its name and the texts of the errors and
\* info_messages of its result.
Outcome(op, existing, errors, info_messages) ==
  [op |-> op,
   errors |-> {errors[i].text : i \in DOMAIN errors},
   info_messages |-> {info_messages[i].text : i \in DOMAIN info_messages}]

Init ==
  /\ proxy_cards = NoCards
  /\ decklists = NoDecklists
  /\ deck_entries = NoEntries
  /\ last = Outcome("none", FALSE, <<>>, <<>>)

ProxyAdd ==
  \E cq \in Entries :
    /\ InStock(add_cards(proxy_cards, cq))
    /\ proxy_cards' = add_cards(proxy_cards, cq)
    /\ last' = Outcome("add", FALSE, <<>>, <<>>)
    /\ UNCHANGED <<decklists, deck_entries>>

ProxyRemove ==
  \E cq \in Entries :
    \E r \in {remove_cards(proxy_cards, cq)} :
       /\ proxy_cards' = r.cards
       /\ last' = Outcome("remove", FALSE,
                    IF r.raised
                    THEN <<[text |-> "CardInsufficientQuantityError", n |-> 0]>>
                    ELSE <<>>, <<>>)
       /\ UNCHANGED <<decklists, deck_entries>>

PreviewDeckUpdate ==
  \E config \in DeckConfigs, fetched \in Fetches :
    \E existing \in first(get_decklist(decklists, config.name, config.format)) :
      \E r \in {preview_deck_update(proxy_cards, deck_entries, config.format,
                                    config.name, fetched, existing)} :
         /\ proxy_cards' = r.cards
         /\ last' = Outcome("preview", existing # None, r.preview.errors,
                            r.preview.info_messages)
         /\ UNCHANGED <<decklists, deck_entries>>

RECURSIVE preview_batch_loop(_, _, _, _, _, _)
\* The loop of preview_batch_update from entry i on: fetched[i] and
\* existing[i] are what the fetch and the lookup of entry i return.  The
\* table after it and the previews.
preview_batch_loop(cards, entries, deck_configs, fetched, existing, i) ==
  IF i > Len(deck_configs)
  THEN [cards |-> cards, deck_updates |-> <<>>]
  ELSE LET r == preview_deck_update(cards, entries, deck_configs[i].format,
                                    deck_configs[i].name, fetched[i], existing[i])
           rest == preview_batch_loop(r.cards, entries, deck_configs, fetched,
                                      existing, i + 1)
       IN [cards |-> rest.cards, deck_updates |-> <<r.preview>> \o rest.deck_updates]

\* preview_batch_update
preview_batch_update(cards, entries, deck_configs, fetched, existing) ==
  preview_batch_loop(cards, entries, deck_configs, fetched, existing, 1)

\* The errors of all previews of a batch.
BatchErrors(deck_updates) ==
  IF \E i \in DOMAIN deck_updates : deck_updates[i].errors # <<>>
  THEN <<[text |-> "Error processing deck", n |-> 0]>>
  ELSE <<>>

PreviewBatchUpdate ==
  \E deck_configs \in BatchFiles :
    \E fetched \in [DOMAIN deck_configs -> Fetches] :
      \E existing \in [DOMAIN deck_configs -> DOMAIN decklists \cup {None}] :
        /\ \A i \in DOMAIN deck_configs :
             existing[i] \in first(get_decklist(decklists, deck_configs[i].name,
                                                deck_configs[i].format))
        /\ \E r \in {preview_batch_update(proxy_cards, deck_entries, deck_configs,
                                          fetched, existing)} :
             /\ proxy_cards' = r.cards
             /\ last' = Outcome("preview_batch", FALSE,
                                BatchErrors(r.deck_updates), <<>>)
             /\ UNCHANGED <<decklists, deck_entries>>

ApplyDeckUpdate ==
  \E config \in DeckConfigs, fetched1 \in Fetches :
    \E fetched2 \in (IF fetched1.ok
                     THEN {fetched1, [ok |-> FALSE, cards |-> <<>>]}
                     ELSE Fetches),
       existing \in first(get_decklist(decklists, config.name, config.format)) :
      \E r \in {apply_deck_update(proxy_cards, decklists, deck_entries, config.url,
                                  config.format, config.name, fetched1, existing,
                                  fetched2, existing)} :
         /\ InStock(r.cards)
         /\ \A id \in DOMAIN r.decks : id <= MaxDeckId
         /\ proxy_cards' = r.cards
         /\ decklists' = r.decks
         /\ deck_entries' = r.entries
         /\ last' = Outcome("apply", existing # None, r.preview.errors,
                            r.preview.info_messages)

DeckDelete ==
  \E name \in {c.name : c \in DeckConfigs},
     format_name \in {c.format : c \in DeckConfigs} \cup {""}, confirm \in BOOLEAN :
    \E answer_delete \in (IF confirm THEN {TRUE} ELSE BOOLEAN) :
    \E answer_proxies \in (IF confirm \/ ~answer_delete THEN {FALSE} ELSE BOOLEAN) :
    \E deck \in first(find_deck(decklists, name, format_name)) :
      \E r \in {deck_delete(proxy_cards, decklists, deck_entries, deck,
                           confirm, answer_delete, answer_proxies)} :
         /\ proxy_cards' = r.cards
         /\ decklists' = r.decks
         /\ last' = Outcome("delete", deck # None,
                      IF r.message \in {"not found", "Failed to delete"}
                      THEN <<[text |-> r.message, n |-> 0]>>
                      ELSE <<>>,
                      <<>>)
         /\ UNCHANGED deck_entries

Next ==
  \/ ProxyAdd
  \/ ProxyRemove
  \/ PreviewDeckUpdate
  \/ PreviewBatchUpdate
  \/ ApplyDeckUpdate
  \/ DeckDelete

Spec == Init /\ [][Next]_vars


(***************************************************************************)
(* Claims about the system.                                                *)
(***************************************************************************)
\* C2: in every reachable state of the system, whatever the order of proxy
\* add, proxy remove, deck updates and deck deletions (with or without the
\* removal of the deck's proxy cards), every card has its quantity_available
\* between 0 and its quantity_owned.
C2_InvariantEverywhere ==
  \A card_name \in DOMAIN proxy_cards :
    get_available_quantity(proxy_cards, card_name)
      \in 0 .. get_owned_quantity(proxy_cards, card_name)

\* C3: an apply_deck_update never reports a shortage: its errors hold no
\* "Warning: Could not fully allocate" entry, whatever the ledger, the deck
\* store and the target.
C3_NoShortage ==
  last.op = "apply" => "Warning: Could not fully allocate cards" \notin last.errors

\* C3 witness: an apply whose first allocation was short and whose retry took
\* the cards that were created.
C3_Witness ==
  /\ last.op = "apply"
  /\ "Info: Created proxy cards for allocation" \in last.info_messages
  /\ last.errors = {}

\* C4: preview_deck_update and preview_batch_update leave the card table, the
\* decks (their URLs included) and the deck entries as they were.
C4_PreviewPure ==
  [][last'.op \in {"preview", "preview_batch"}
       => UNCHANGED <<proxy_cards, decklists, deck_entries>>]_vars

\* C4 witness: a batch preview without errors of one deck that exists and one
\* that does not, over a table that holds cards.
C4_Witness ==
  /\ last.op = "preview_batch"
  /\ last.errors = {}
  /\ Cardinality(DOMAIN decklists) = 1
  /\ proxy_cards # NoCards

\* C5: an apply_deck_update whose preview has an error changes neither the
\* card table nor the decks nor the deck entries.
C5_PreviewErrorStops ==
  [][(last'.op = "apply" /\ "Error processing deck" \in last'.errors)
       => UNCHANGED <<proxy_cards, decklists, deck_entries>>]_vars

\* C5 witness: an apply stopped by the error of its preview, over a table
\* that holds cards and a deck store that holds a deck.
C5_Witness ==
  /\ last.op = "apply"
  /\ "Error processing deck" \in last.errors
  /\ decklists # NoDecklists
  /\ proxy_cards # NoCards

(***************************************************************************)
(* _calculate_swaps on its own (SpecSwaps): the two dicts are drawn in the  *)
(* initial state and the only step computes the swaps.                     *)
(***************************************************************************)
\* The dicts a decklist may be: names that differ in case only may both occur.
Decklists ==
  {d \in UNION {[1..n -> [name : CardNames, qty : 0..MaxQty]] : n \in 0..MaxLen} :
     \A i, j \in DOMAIN d : i # j => d[i].name # d[j].name}

InitSwaps ==
  /\ proxy_cards = NoCards
  /\ decklists = NoDecklists
  /\ deck_entries = NoEntries
  /\ \E current_cards \in Decklists, new_cards \in Decklists :
       last = [op |-> "args", current_cards |-> current_cards,
               new_cards |-> new_cards, swaps |-> calculate_swaps(<<>>, <<>>)]

CalculateSwaps ==
  /\ last.op = "args"
  /\ last' = [last EXCEPT !.op = "calculate_swaps",
                          !.swaps = calculate_swaps(last.current_cards,
                                                    last.new_cards)]
  /\ UNCHANGED <<proxy_cards, decklists, deck_entries>>

NextSwaps == CalculateSwaps

SpecSwaps == InitSwaps /\ [][NextSwaps]_vars

\* Two names of the same card: equal when case is ignored.
SameCard(a, b) == a = b \/ {a, b} = {"Bolt", "bolt"}

\* The quantity a dict holds of a card, names compared without case; a card
\* the dict does not hold counts as 0.
CaseQty(d, name) ==
  LET same == {i \in DOMAIN d : SameCard(d[i].name, name)}
  IN IF same = {} THEN 0 ELSE d[CHOOSE i \in same : TRUE].qty

\* One side of the swaps as claimed: every card of side a is in the result
\* under its own casing with the quantity a has above side b, when that is
\* positive, and the result holds nothing else.
Difference(result, a, b) ==
  /\ Items(result) =
       {[name |-> it.name, qty |-> it.qty - CaseQty(b, it.name)] :
          it \in {x \in Items(a) : x.qty > CaseQty(b, x.name)}}
  /\ Len(result) = Cardinality(Items(result))

\* The swaps as claimed, with the three particular cases.
SwapsAsClaimed ==
  /\ Difference(last.swaps.cards_to_add, last.new_cards, last.current_cards)
  /\ Difference(last.swaps.cards_to_remove, last.current_cards, last.new_cards)
  /\ last.current_cards = last.new_cards =>
       last.swaps.cards_to_add = <<>> /\ last.swaps.cards_to_remove = <<>>
  /\ last.current_cards = <<>> =>
       /\ Items(last.swaps.cards_to_add) = Items(last.new_cards)
       /\ last.swaps.cards_to_remove = <<>>
  /\ last.new_cards = <<>> =>
       /\ last.swaps.cards_to_add = <<>>
       /\ Items(last.swaps.cards_to_remove) = Items(last.current_cards)

\* A decklist whose names stay distinct when case is ignored and whose
\* quantities are all positive.
PlainDecklist(d) ==
  /\ \A i, j \in DOMAIN d : i # j => ~SameCard(d[i].name, d[j].name)
  /\ \A i \in DOMAIN d : d[i].qty > 0

Idle == [op |-> "none"]

InitCalls ==
  /\ proxy_cards = NoCards
  /\ decklists = NoDecklists
  /\ deck_entries = NoEntries
  /\ last = Idle

RunProxyAdd ==
  /\ last = Idle
  /\ \E cq \in Entries :
       /\ InStock(add_cards(proxy_cards, cq))
       /\ proxy_cards' = add_cards(proxy_cards, cq)
       /\ UNCHANGED <<decklists, deck_entries, last>>

RunProxyRemove ==
  /\ last = Idle
  /\ \E cq \in Entries :
       /\ proxy_cards' = remove_cards(proxy_cards, cq).cards
       /\ UNCHANGED <<decklists, deck_entries, last>>

RunApplyDeckUpdate ==
  /\ last = Idle
  /\ \E config \in DeckConfigs, fetched1 \in Fetches :
       \E fetched2 \in (IF fetched1.ok
                        THEN {fetched1, [ok |-> FALSE, cards |-> <<>>]}
                        ELSE Fetches),
          existing \in first(get_decklist(decklists, config.name, config.format)) :
         \E r \in {apply_deck_update(proxy_cards, decklists, deck_entries, config.url,
                                     config.format, config.name, fetched1, existing,
                                     fetched2, existing)} :
            /\ InStock(r.cards)
            /\ \A id \in DOMAIN r.decks : id <= MaxDeckId
            /\ proxy_cards' = r.cards
            /\ decklists' = r.decks
            /\ deck_entries' = r.entries
            /\ UNCHANGED last

RunDeckDelete ==
  /\ last = Idle
  /\ \E name \in {c.name : c \in DeckConfigs},
        format_name \in {c.format : c \in DeckConfigs} \cup {""}, confirm \in BOOLEAN :
       \E answer_delete \in (IF confirm THEN {TRUE} ELSE BOOLEAN) :
       \E answer_proxies \in (IF confirm \/ ~answer_delete THEN {FALSE} ELSE BOOLEAN) :
       \E deck \in first(find_deck(decklists, name, format_name)) :
         \E r \in {deck_delete(proxy_cards, decklists, deck_entries, deck,
                              confirm, answer_delete, answer_proxies)} :
            /\ proxy_cards' = r.cards
            /\ decklists' = r.decks
            /\ UNCHANGED <<deck_entries, last>>

\* The commands that change the tables, without a record.
Run == RunProxyAdd \/ RunProxyRemove \/ RunApplyDeckUpdate \/ RunDeckDelete

SpecRun == InitCalls /\ [][Run]_vars

\* What fetch_decklist returns in a recorded call: the decklists of the
\* system, one with a quantity of 0, one in lower case and one with two names
\* that differ in case only.
CallTargets ==
  Targets \cup { <<[name |-> "Bolt", qty |-> 0]>>,
                 <<[name |-> "bolt", qty |-> 2]>>,
                 <<[name |-> "Bolt", qty |-> 1], [name |-> "bolt", qty |-> 1]>> }

CallFetches ==
  {[ok |-> TRUE, cards |-> t] : t \in CallTargets} \cup {[ok |-> FALSE, cards |-> <<>>]}

\* One recorded apply_deck_update: fetched1 is the fetch of its preview,
\* fetched2 the fetch of the apply.
CallApply ==
  /\ last = Idle
  /\ \E config \in DeckConfigs, fetched1 \in CallFetches :
       \E fetched2 \in {fetched1, [ok |-> FALSE, cards |-> <<>>]},
          existing \in first(get_decklist(decklists, config.name, config.format)) :
         \E r \in {apply_deck_update(proxy_cards, decklists, deck_entries, config.url,
                                     config.format, config.name, fetched1, existing,
                                     fetched2, existing)} :
            /\ proxy_cards' = r.cards
            /\ decklists' = r.decks
            /\ deck_entries' = r.entries
            /\ last' = [op |-> "apply", config |-> config, fetched1 |-> fetched1,
                        fetched2 |-> fetched2, existing |-> existing,
                        cards |-> proxy_cards, decks |-> decklists,
                        entries |-> deck_entries, preview |-> r.preview]

NextApply == Run \/ CallApply

SpecApply == InitCalls /\ [][NextApply]_vars

\* C13: an apply of a new deck whose fetches return T, none of T's cards
\* having a record, ends with every card of T owned T(c) times and available
\* 0 times, the deck stored with the cards T, no errors, and, T having a card,
\* one info message for the creation of sum(T) cards.
C13_NewDeckProvisioned ==
  (/\ last.op = "apply"
   /\ last.existing = None
   /\ last.fetched1.ok /\ last.fetched2.ok
   /\ Keys(last.fetched2.cards) \cap DOMAIN last.cards = {})
  => LET T == last.fetched2.cards
         deck == get_decklist(decklists, last.config.name, last.config.format)
     IN /\ \A c \in Keys(T) :
             /\ c \in DOMAIN proxy_cards
             /\ proxy_cards[c] = [quantity_owned |-> Get(T, c),
                                  quantity_available |-> 0]
        /\ Cardinality(deck) = 1
        /\ \A id \in deck : Items(get_decklist_cards(deck_entries, id)) = Items(T)
        /\ last.preview.errors = <<>>
        /\ last.preview.info_messages =
             IF T = <<>>
             THEN <<>>
             ELSE <<[text |-> "Info: Created proxy cards for allocation",
                     n |-> Sum(T)]>>

\* C13 witness: such an apply of a deck of two copies of a card without a
\* record, next to another deck and other cards.
C13_Witness ==
  /\ last.op = "apply"
  /\ last.existing = None
  /\ last.fetched1.ok /\ last.fetched2.ok
  /\ last.fetched2.cards = <<[name |-> "bolt", qty |-> 2]>>
  /\ "bolt" \notin DOMAIN last.cards
  /\ last.cards # NoCards
  /\ last.decks # NoDecklists

\* C14: after an apply_deck_update that returns without errors there is one
\* deck of the name and format, its cards are the fetched dict and nothing
\* else, its URL is the URL of the call, and every other deck has the URL and
\* the cards it had.
C14_DeckReplaced ==
  (last.op = "apply" /\ last.preview.errors = <<>>)
  => LET deck == get_decklist(decklists, last.config.name, last.config.format)
     IN /\ Cardinality(deck) = 1
        /\ \A id \in deck :
             /\ get_decklist_cards(deck_entries, id) = last.fetched2.cards
             /\ decklists[id].url = last.config.url
             /\ last.existing # None => id = last.existing
             /\ DOMAIN decklists = DOMAIN last.decks \cup {id}
             /\ \A other \in DOMAIN decklists \ {id} :
                  /\ decklists[other] = last.decks[other]
                  /\ get_decklist_cards(deck_entries, other)
                       = get_decklist_cards(last.entries, other)

\* C14 witness: an apply without errors of a deck that had other cards and
\* another URL, next to a second deck that has cards.
C14_Witness ==
  /\ last.op = "apply"
  /\ last.preview.errors = <<>>
  /\ last.existing # None
  /\ last.decks[last.existing].url # last.config.url
  /\ Keys(get_decklist_cards(last.entries, last.existing))
       \ Keys(last.fetched2.cards) # {}
  /\ last.fetched2.cards # <<>>
  /\ \E other \in DOMAIN decklists \ {last.existing} :
       get_decklist_cards(deck_entries, other) # <<>>

(***************************************************************************)
(* Batch updates (SpecBatch).                                              *)
(***************************************************************************)
\* get_decklist(name, format_name) as the workflow uses it: the row found, or
\* None.
existing_deck(decks, name, format_name) ==
  CHOOSE id \in first(get_decklist(decks, name, format_name)) : TRUE

RECURSIVE apply_batch_loop_stopping(_, _, _, _, _, _, _)
\* Faulty variant of apply_batch_loop: the loop ends at the first deck whose
\* result has errors.
apply_batch_loop_stopping(cards, decks, entries, deck_configs, fetched1, fetched2, i) ==
  IF i > Len(deck_configs)
  THEN [cards |-> cards, decks |-> decks, entries |-> entries, deck_updates |-> <<>>]
  ELSE LET config == deck_configs[i]
           existing == existing_deck(decks, config.name, config.format)
           r == apply_deck_update(cards, decks, entries, config.url, config.format,
                                  config.name, fetched1[i], existing,
                                  fetched2[i], existing)
           rest == IF r.preview.errors # <<>>
                   THEN [cards |-> r.cards, decks |-> r.decks, entries |-> r.entries,
                         deck_updates |-> <<>>]
                   ELSE apply_batch_loop_stopping(r.cards, r.decks, r.entries,
                                                  deck_configs, fetched1, fetched2, i + 1)
       IN [rest EXCEPT !.deck_updates = <<r.preview>> \o @]

RECURSIVE apply_batch_loop(_, _, _, _, _, _, _)
\* The loop of apply_batch_update from entry i on: fetched1[i] and fetched2[i]
\* are what the two fetches of entry i return.  The tables after it and the
\* results.
apply_batch_loop(cards, decks, entries, deck_configs, fetched1, fetched2, i) ==
  IF i > Len(deck_configs)
  THEN [cards |-> cards, decks |-> decks, entries |-> entries, deck_updates |-> <<>>]
  ELSE LET config == deck_configs[i]
           existing == existing_deck(decks, config.name, config.format)
           r == apply_deck_update(cards, decks, entries, config.url, config.format,
                                  config.name, fetched1[i], existing,
                                  fetched2[i], existing)
           rest == apply_batch_loop(r.cards, r.decks, r.entries, deck_configs,
                                    fetched1, fetched2, i + 1)
       IN [rest EXCEPT !.deck_updates = <<r.preview>> \o @]

\* Faulty variant of apply_batch_update, with the loop that stops.
apply_batch_update_stopping(cards, decks, entries, deck_configs, fetched1, fetched2) ==
  apply_batch_loop_stopping(cards, decks, entries, deck_configs, fetched1, fetched2, 1)

\* apply_batch_update
apply_batch_update(cards, decks, entries, deck_configs, fetched1, fetched2) ==
  apply_batch_loop(cards, decks, entries, deck_configs, fetched1, fetched2, 1)

\* The deck_configs lists of a recorded batch: two decks, and one deck twice
\* with two URLs.
CallBatchFiles ==
  { <<[name |-> "A", format |-> "Modern", url |-> "u1"],
      [name |-> "A", format |-> "Legacy", url |-> "u1"]>>,
    <<[name |-> "A", format |-> "Modern", url |-> "u1"],
      [name |-> "A", format |-> "Modern", url |-> "u2"]>> }

\* What a fetch of a recorded batch returns.
BatchFetches ==
  { [ok |-> FALSE, cards |-> <<>>],
    [ok |-> TRUE, cards |-> <<[name |-> "Bolt", qty |-> 2]>>],
    [ok |-> TRUE, cards |-> <<[name |-> "Bolt", qty |-> 1],
                              [name |-> "Will", qty |-> 1]>>] }

\* One recorded apply_batch_update.
CallApplyBatch ==
  /\ last = Idle
  /\ \E deck_configs \in CallBatchFiles :
       \E fetched1 \in [DOMAIN deck_configs -> BatchFetches],
          fetched2 \in [DOMAIN deck_configs -> BatchFetches] :
         /\ \A i \in DOMAIN deck_configs :
              fetched2[i] \in {fetched1[i], [ok |-> FALSE, cards |-> <<>>]}
         /\ \E r \in {apply_batch_update(proxy_cards, decklists, deck_entries,
                                         deck_configs, fetched1, fetched2)} :
              /\ proxy_cards' = r.cards
              /\ decklists' = r.decks
              /\ deck_entries' = r.entries
              /\ last' = [op |-> "apply_batch", deck_configs |-> deck_configs,
                          fetched1 |-> fetched1, fetched2 |-> fetched2,
                          cards |-> proxy_cards, decks |-> decklists,
                          entries |-> deck_entries, deck_updates |-> r.deck_updates]

\* One recorded preview_batch_update.
CallPreviewBatch ==
  /\ last = Idle
  /\ \E deck_configs \in CallBatchFiles :
       \E fetched \in [DOMAIN deck_configs -> BatchFetches] :
         \E r \in {preview_batch_update(proxy_cards, deck_entries, deck_configs, fetched,
                     [i \in DOMAIN deck_configs |->
                        existing_deck(decklists, deck_configs[i].name,
                                      deck_configs[i].format)])} :
              /\ proxy_cards' = r.cards
              /\ UNCHANGED <<decklists, deck_entries>>
              /\ last' = [op |-> "preview_batch", deck_configs |-> deck_configs,
                          fetched1 |-> fetched, fetched2 |-> fetched,
                          cards |-> proxy_cards, decks |-> decklists,
                          entries |-> deck_entries, deck_updates |-> r.deck_updates]

NextBatch == Run \/ CallApplyBatch \/ CallPreviewBatch

SpecBatch == InitCalls /\ [][NextBatch]_vars

\* The result of apply_deck_update for entry i of the recorded batch from the
\* given tables.
ApplyOf(i, cards, decks, entries) ==
  LET config == last.deck_configs[i]
      found == get_decklist(decks, config.name, config.format)
      existing == IF found = {} THEN None ELSE CHOOSE id \in found : TRUE
  IN apply_deck_update(cards, decks, entries, config.url, config.format, config.name,
                       last.fetched1[i], existing, last.fetched2[i], existing)

\* The result of preview_deck_update for entry i of the recorded batch from
\* the tables before the batch.
PreviewOf(i) ==
  LET config == last.deck_configs[i]
      found == get_decklist(last.decks, config.name, config.format)
      existing == IF found = {} THEN None ELSE CHOOSE id \in found : TRUE
  IN preview_deck_update(last.cards, last.entries, config.format, config.name,
                         last.fetched1[i], existing).preview

\* C15: a batch returns one result per entry, in the order of the entries;
\* apply_batch_update leaves the tables as the first apply followed by the
\* second apply leaves them, whichever of the two has errors, and its results
\* are theirs; the results of preview_batch_update are those of the single
\* previews.
C15_BatchInOrder ==
  /\ last.op \in {"apply_batch", "preview_batch"} =>
       /\ Len(last.deck_updates) = Len(last.deck_configs)
       /\ \A i \in DOMAIN last.deck_configs :
            /\ last.deck_updates[i].deck_name = last.deck_configs[i].name
            /\ last.deck_updates[i].deck_format = last.deck_configs[i].format
  /\ last.op = "apply_batch" =>
       LET one == ApplyOf(1, last.cards, last.decks, last.entries)
           two == ApplyOf(2, one.cards, one.decks, one.entries)
       IN /\ last.deck_updates = <<one.preview, two.preview>>
          /\ proxy_cards = two.cards
          /\ decklists = two.decks
          /\ deck_entries = two.entries
  /\ last.op = "preview_batch" =>
       last.deck_updates = <<PreviewOf(1), PreviewOf(2)>>

\* C15 witness: an apply_batch_update whose first deck fails and whose second
\* deck is created with its cards.
C15_Witness ==
  /\ last.op = "apply_batch"
  /\ last.deck_updates[1].errors # <<>>
  /\ last.deck_updates[2].errors = <<>>
  /\ get_decklist(last.decks, last.deck_configs[2].name, last.deck_configs[2].format) = {}
  /\ \E id \in get_decklist(decklists, last.deck_configs[2].name,
                            last.deck_configs[2].format) :
       get_decklist_cards(deck_entries, id) = last.fetched2[2].cards
  /\ proxy_cards # last.cards

(***************************************************************************)
(* BatchUpdatePreview.total_order on its own (SpecTotals): the previews    *)
(* are drawn in the initial state and the only step computes the totals.   *)
(***************************************************************************)
\* largest number of previews of a batch result
MaxUpdates == 2

\* Faulty variant of add_to_total: the quantity replaces the one counted so far.
add_to_total_replacing(total, card, qty) ==
  IF card \in Keys(total)
  THEN [i \in DOMAIN total |->
          IF total[i].name = card THEN [name |-> card, qty |-> qty] ELSE total[i]]
  ELSE Append(total, [name |-> card, qty |-> qty])

\* total[card] = total.get(card, 0) + qty
add_to_total(total, card, qty) ==
  IF card \in Keys(total)
  THEN [i \in DOMAIN total |->
          IF total[i].name = card
          THEN [name |-> card, qty |-> Get(total, card) + qty]
          ELSE total[i]]
  ELSE Append(total, [name |-> card, qty |-> qty])

RECURSIVE total_order_loop(_, _, _, _)
\* The two loops of total_order from item j of preview i on.
total_order_loop(deck_updates, i, j, total) ==
  IF i > Len(deck_updates)
  THEN total
  ELSE IF j > Len(deck_updates[i].cards_to_order)
  THEN total_order_loop(deck_updates, i + 1, 1, total)
  ELSE total_order_loop(deck_updates, i, j + 1,
         add_to_total(total, deck_updates[i].cards_to_order[j].name,
                      deck_updates[i].cards_to_order[j].qty))

\* BatchUpdatePreview.total_order
total_order(deck_updates) == total_order_loop(deck_updates, 1, 1, <<>>)

\* BatchUpdatePreview.total_cards_to_order
total_cards_to_order(deck_updates) == Sum(total_order(deck_updates))

\* The previews of a batch result, as far as the totals read them.
BatchResults ==
  UNION {[1..n -> {DeckUpdatePreview("A", "Modern", <<>>, <<>>, order, <<>>, <<>>) :
                     order \in Dicts}] : n \in 0..MaxUpdates}

InitTotals ==
  /\ proxy_cards = NoCards
  /\ decklists = NoDecklists
  /\ deck_entries = NoEntries
  /\ \E deck_updates \in BatchResults :
       last = [op |-> "args", deck_updates |-> deck_updates,
               total_order |-> <<>>, total_cards_to_order |-> 0]

TotalOrder ==
  /\ last.op = "args"
  /\ last' = [last EXCEPT !.op = "total_order",
                          !.total_order = total_order(last.deck_updates),
                          !.total_cards_to_order =
                             total_cards_to_order(last.deck_updates)]
  /\ UNCHANGED <<proxy_cards, decklists, deck_entries>>

NextTotals == TotalOrder

SpecTotals == InitTotals /\ [][NextTotals]_vars

RECURSIVE OrderedBy(_, _, _)
\* The quantity of a card in the cards_to_order of the previews from i on.
OrderedBy(deck_updates, card, i) ==
  IF i > Len(deck_updates)
  THEN 0
  ELSE Get(deck_updates[i].cards_to_order, card) + OrderedBy(deck_updates, card, i + 1)

\* C16: total_order has one entry for each card that is in the cards_to_order
\* of some preview and no other, its quantity is the sum of the card's
\* quantities in all previews, and total_cards_to_order is the sum of the
\* quantities of total_order.
C16_TotalOrder ==
  last.op = "total_order" =>
    /\ Keys(last.total_order) =
         UNION {Keys(last.deck_updates[i].cards_to_order) : i \in DOMAIN last.deck_updates}
    /\ Len(last.total_order) = Cardinality(Keys(last.total_order))
    /\ \A card \in Keys(last.total_order) :
         Get(last.total_order, card) = OrderedBy(last.deck_updates, card, 1)
    /\ last.total_cards_to_order =
         OrderedBy(last.deck_updates, "Bolt", 1) + OrderedBy(last.deck_updates, "Will", 1)

\* C16 witness: two previews that both order one card, one of them a second
\* card too.
C16_Witness ==
  /\ last.op = "total_order"
  /\ Len(last.deck_updates) = 2
  /\ last.deck_updates[1].cards_to_order = <<[name |-> "Bolt", qty |-> 2]>>
  /\ last.deck_updates[2].cards_to_order =
       <<[name |-> "Bolt", qty |-> 1], [name |-> "Will", qty |-> 1]>>
  /\ last.total_order = <<[name |-> "Bolt", qty |-> 3], [name |-> "Will", qty |-> 1]>>
  /\ last.total_cards_to_order = 4

(***************************************************************************)
(* A new deck applied and deleted again (SpecRoundTrip).                   *)
(***************************************************************************)
\* deck_delete of the deck a recorded apply_deck_update has just created,
\* without the removal of its proxy cards: with --confirm, or with "y" to
\* the first prompt and "n" to the second.
CallDeleteApplied ==
  /\ last.op = "apply"
  /\ last.existing = None
  /\ last.preview.errors = <<>>
  /\ \E confirm \in BOOLEAN :
       \E deck \in first(find_deck(decklists, last.config.name, last.config.format)) :
         \E r \in {deck_delete(proxy_cards, decklists, deck_entries, deck,
                              confirm, TRUE, FALSE)} :
            /\ proxy_cards' = r.cards
            /\ decklists' = r.decks
            /\ UNCHANGED deck_entries
            /\ last' = [op |-> "apply_delete", applied |-> last, confirm |-> confirm,
                        message |-> r.message]

NextRoundTrip == Run \/ CallApply \/ CallDeleteApplied

SpecRoundTrip == InitCalls /\ [][NextRoundTrip]_vars

\* The copies of a card the apply of target T had to create from the table.
Created(cards, T, card) ==
  IF Get(T, card) > get_available_quantity(cards, card)
  THEN Get(T, card) - get_available_quantity(cards, card)
  ELSE 0

\* C17: after a new deck is applied and then deleted without the removal of
\* its proxy cards, every card has the owned and available quantities it had
\* before the apply when the available stock covered the target, and both
\* higher by the quantity the apply created when it did not.
C17_RoundTrip ==
  last.op = "apply_delete" =>
    LET before == last.applied.cards
        T == last.applied.fetched2.cards
    IN /\ last.message = "Deleted"
       /\ \A card \in DOMAIN proxy_cards \cup DOMAIN before \cup Keys(T) :
            /\ get_owned_quantity(proxy_cards, card)
                 = get_owned_quantity(before, card) + Created(before, T, card)
            /\ get_available_quantity(proxy_cards, card)
                 = get_available_quantity(before, card) + Created(before, T, card)

\* C17 witness: a round trip of a deck of two cards, one covered by the
\* available stock and one created by the apply.
C17_Witness ==
  /\ last.op = "apply_delete"
  /\ \E covered, short \in Keys(last.applied.fetched2.cards) :
       /\ Get(last.applied.fetched2.cards, covered) > 0
       /\ Created(last.applied.cards, last.applied.fetched2.cards, covered) = 0
       /\ Created(last.applied.cards, last.applied.fetched2.cards, short) > 0
       /\ proxy_cards[covered] = last.applied.cards[covered]

(***************************************************************************)
(* fetch_decklist (utils.py) and one recorded preview (SpecPreview).       *)
(***************************************************************************)
\* The netloc of the URLs of the model.
Domains == {"cubecobra.com", "www.mtggoldfish.com", "moxfield.com", "www.example.com"}

\* domain.replace("www.", "") if domain.startswith("www.") else domain
normalized_domain(domain) ==
  CASE domain = "www.mtggoldfish.com" -> "mtggoldfish.com"
    [] domain = "www.example.com" -> "example.com"
    [] OTHER -> domain

\* What the download of a decklist gives: an exception of requests, a text
\* with a line that starts with a digit and has no card name, or a cardlist.
Pages ==
  { [kind |-> "error", cards |-> <<>>],
    [kind |-> "bad line", cards |-> <<[name |-> "Bolt", qty |-> 2]>>],
    [kind |-> "cardlist", cards |-> <<[name |-> "Bolt", qty |-> 2]>>],
    [kind |-> "cardlist", cards |-> <<[name |-> "Bolt", qty |-> 1],
                                     [name |-> "Will", qty |-> 1]>>] }

\* What a URL stands for when it is fetched: its domain, the answer of the
\* Moxfield API (no answer, an answer without exportId, an answer with one)
\* and the page of the download.
Sites ==
  {s \in [domain : Domains, api : {"none", "no exportId", "exportId"}, page : Pages] :
     s.domain # "moxfield.com" => s.api = "exportId"}

\* An exception raised by fetch_decklist.
Raised(error) == [ok |-> FALSE, cards |-> <<>>, error |-> error]

\* Faulty variant of download: a line without a card name is skipped.
download_skipping(site) ==
  CASE site.page.kind = "error" -> Raised("RequestException")
    [] OTHER -> [ok |-> TRUE, cards |-> site.page.cards, error |-> ""]

\* The download and the parse of fetch_decklist.
download(site) ==
  CASE site.page.kind = "error" -> Raised("RequestException")
    [] site.page.kind = "bad line" -> Raised("CardListInputError")
    [] OTHER -> [ok |-> TRUE, cards |-> site.page.cards, error |-> ""]

\* fetch_decklist: the dict it returns, or the exception it raises.
fetch_decklist(site) ==
  CASE normalized_domain(site.domain) \in {"cubecobra.com", "mtggoldfish.com"} ->
         download(site)
    [] normalized_domain(site.domain) = "moxfield.com" ->
         CASE site.api = "none" -> Raised("UnableToFetchDecklistError")
           [] site.api = "no exportId" -> Raised("MissingSchema")
           [] OTHER -> download(site)
    [] OTHER -> Raised("DomainNotSupportedError")

\* One recorded preview_deck_update.
CallPreview ==
  /\ last = Idle
  /\ \E config \in DeckConfigs, site \in Sites :
       \E fetched \in {fetch_decklist(site)},
          existing \in first(get_decklist(decklists, config.name, config.format)) :
         \E r \in {preview_deck_update(proxy_cards, deck_entries, config.format,
                                       config.name, fetched, existing)} :
            /\ proxy_cards' = r.cards
            /\ UNCHANGED <<decklists, deck_entries>>
            /\ last' = [op |-> "preview", config |-> config, site |-> site,
                        fetched |-> fetched, existing |-> existing,
                        cards |-> proxy_cards, preview |-> r.preview]

NextPreview == Run \/ CallPreview

SpecPreview == InitCalls /\ [][NextPreview]_vars

\* The fetch of the site fails: the domain is not supported, the Moxfield API
\* gives no answer or no exportId, the download fails or the list has a line
\* without a card name.
FetchFails(site) ==
  \/ site.domain \notin {"cubecobra.com", "www.mtggoldfish.com", "moxfield.com"}
  \/ site.domain = "moxfield.com" /\ site.api # "exportId"
  \/ site.page.kind # "cardlist"

\* C18: a preview_deck_update whose fetch fails returns a preview with one
\* error that describes the failure and with empty cards_to_add,
\* cards_to_remove and cards_to_order, and changes no table.
C18_FetchFailurePreview ==
  (last.op = "preview" /\ FetchFails(last.site)) =>
    /\ Len(last.preview.errors) = 1
    /\ last.preview.errors[1].text = "Error processing deck"
    /\ last.fetched.error # ""
    /\ last.preview.swaps.cards_to_add = <<>>
    /\ last.preview.swaps.cards_to_remove = <<>>
    /\ last.preview.cards_to_order = <<>>
    /\ last.preview.info_messages = <<>>
    /\ proxy_cards = last.cards

\* C18 witness: the preview of a deck that has cards whose list has a line
\* without a card name.
C18_Witness ==
  /\ last.op = "preview"
  /\ last.site.page.kind = "bad line"
  /\ last.fetched.error = "CardListInputError"
  /\ last.existing # None
  /\ get_decklist_cards(deck_entries, last.existing) # <<>>
  /\ last.preview.errors # <<>>

(***************************************************************************)
(* One recorded DecklistService.delete_decklist (SpecDelete).              *)
(***************************************************************************)
CallDeleteDecklist ==
  /\ last = Idle
  /\ \E decklist_id \in 1..MaxDeckId :
       \E r \in {delete_decklist(decklists, decklist_id)} :
          /\ decklists' = r.decks
          /\ UNCHANGED <<proxy_cards, deck_entries>>
          /\ last' = [op |-> "delete_decklist", decklist_id |-> decklist_id,
                      returned |-> r.found, cards |-> proxy_cards,
                      decks |-> decklists, entries |-> deck_entries]

NextDelete == Run \/ CallDeleteDecklist

SpecDelete == InitCalls /\ [][NextDelete]_vars

\* C19: delete_decklist of a deck that exists returns True and leaves neither
\* the deck nor a deck entry of it, so that a deck that gets its id later
\* starts without cards; of an id without a deck it returns False and changes
\* nothing; the other decks, their entries and the cards stay as they were.
C19_DeleteCascades ==
  last.op = "delete_decklist" =>
    /\ proxy_cards = last.cards
    /\ \A other \in DOMAIN last.decks \ {last.decklist_id} :
         /\ other \in DOMAIN decklists
         /\ decklists[other] = last.decks[other]
         /\ get_decklist_cards(deck_entries, other)
              = get_decklist_cards(last.entries, other)
    /\ IF last.decklist_id \in DOMAIN last.decks
       THEN /\ last.returned
            /\ last.decklist_id \notin DOMAIN decklists
            /\ get_decklist_cards(deck_entries, last.decklist_id) = <<>>
       ELSE /\ ~last.returned
            /\ decklists = last.decks
            /\ deck_entries = last.entries

(***************************************************************************)
(* Two apply_deck_update executions at once (SpecRace).  Each service call *)
(* is one transaction and one step; last keeps, for each execution, the    *)
(* call it is about to make and its local variables, with the tables the   *)
(* two started from.                                                       *)
(***************************************************************************)
\* The two executions and the decks they update.
Procs == {1, 2}

RaceConfigs ==
  <<[name |-> "A", format |-> "Modern", url |-> "u1"],
    [name |-> "A", format |-> "Legacy", url |-> "u1"]>>

\* The decklists the two fetches return: both hold the same card.
RaceTargets ==
  { <<[name |-> "Bolt", qty |-> 2]>>,
    <<[name |-> "Bolt", qty |-> 1], [name |-> "Will", qty |-> 1]>> }

\* The tables the two executions start from: some of the two decks exist
\* with one allocated copy of the card, and stock copies are available.
RaceStart(present, stock) ==
  [cards |-> IF present = {} /\ stock = 0
             THEN NoCards
             ELSE [n \in {"Bolt"} |->
                     [quantity_owned |-> stock + Cardinality(present),
                      quantity_available |-> stock]],
   decks |-> [d \in present |-> [name |-> RaceConfigs[d].name,
                                 format |-> RaceConfigs[d].format,
                                 url |-> "u2"]],
   entries |-> [d \in present |-> <<[name |-> "Bolt", qty |-> 1]>>]]

\* The local variables of an execution before its first call.
Started(config) ==
  [pc |-> "preview", existing_deck |-> None, new_deck_id |-> None,
   insufficient |-> <<>>,
   preview |-> DeckUpdatePreview(config.name, config.format, <<>>, <<>>, <<>>,
                                 <<>>, <<>>)]

InitRace ==
  \E present \in SUBSET Procs, stock \in 0..MaxStock,
     targets \in [Procs -> RaceTargets] :
    /\ proxy_cards = RaceStart(present, stock).cards
    /\ decklists = RaceStart(present, stock).decks
    /\ deck_entries = RaceStart(present, stock).entries
    /\ last = [op |-> "race", start |-> RaceStart(present, stock),
               targets |-> targets, overlapped |-> FALSE,
               procs |-> [p \in Procs |-> Started(RaceConfigs[p])]]

\* Faulty variant of after_allocate: the workflow is done after the first
\* allocation.
after_allocate_done(insufficient) == "done"

\* Where apply_deck_update goes after its first allocate_cards.
after_allocate(insufficient) == IF insufficient # <<>> THEN "add_cards" ELSE "done"

\* Faulty variant of after_update_decklist_cards: the URL is not updated.
after_update_decklist_cards_no_url(existing) == "allocate_cards"

\* Where apply_deck_update goes after update_decklist_cards: to the URL of
\* an existing deck, to the allocation for a new one.
after_update_decklist_cards(existing) == IF existing # None THEN "update_decklist_url" ELSE "allocate_cards"

\* The step of execution p: the tables and the local variables after the
\* call at its pc.
apply_step(p, cards, decks, entries, local, new_cards) ==
  LET config == RaceConfigs[p]
      same == [cards |-> cards, decks |-> decks, entries |-> entries, local |-> local]
  IN CASE local.pc = "preview" ->
            [same EXCEPT !.local.pc = "get_decklist",
                         !.local.preview =
                            preview_deck_update(cards, entries, config.format,
                              config.name, [ok |-> TRUE, cards |-> new_cards],
                              existing_deck(decks, config.name, config.format)).preview]
       [] local.pc = "get_decklist" ->
            LET found == existing_deck(decks, config.name, config.format)
            IN [same EXCEPT !.local.existing_deck = found,
                            !.local.pc = IF found # None
                                         THEN "release_decklist_allocation"
                                         ELSE "create_decklist"]
       [] local.pc = "release_decklist_allocation" ->
            [same EXCEPT !.cards = release_decklist_allocation(cards, entries,
                                                              local.existing_deck),
                         !.local.pc = "update_decklist_cards"]
       [] local.pc = "create_decklist" ->
            LET created == create_decklist(decks, config.name, config.format, config.url)
            IN [same EXCEPT !.decks = created.decks,
                            !.local.new_deck_id = created.id,
                            !.local.pc = "update_decklist_cards"]
       [] local.pc = "update_decklist_cards" ->
            [same EXCEPT !.entries = update_decklist_cards(entries,
                                        IF local.existing_deck # None
                                        THEN local.existing_deck
                                        ELSE local.new_deck_id, new_cards),
                         !.local.pc = after_update_decklist_cards(local.existing_deck)]
       [] local.pc = "update_decklist_url" ->
            [same EXCEPT !.decks = update_decklist_url(decks, local.existing_deck,
                                                       config.url),
                         !.local.pc = "allocate_cards"]
       [] local.pc = "allocate_cards" ->
            LET r == allocate_cards(cards, new_cards)
            IN [same EXCEPT !.cards = r.cards,
                            !.local.insufficient = r.insufficient_cards,
                            !.local.pc = after_allocate(r.insufficient_cards)]
       [] local.pc = "add_cards" ->
            [same EXCEPT !.cards = add_cards(cards, local.insufficient),
                         !.local.pc = "allocate_cards again"]
       [] local.pc = "allocate_cards again" ->
            LET r == allocate_cards(cards, local.insufficient)
            IN [same EXCEPT
                  !.cards = r.cards,
                  !.local.pc = "done",
                  !.local.preview.errors =
                     IF r.insufficient_cards # <<>>
                     THEN Append(@, [text |-> "Warning: Could not fully allocate cards",
                                     n |-> Sum(r.insufficient_cards)])
                     ELSE @,
                  !.local.preview.info_messages =
                     IF r.insufficient_cards # <<>>
                     THEN @
                     ELSE Append(@, [text |-> "Info: Created proxy cards for allocation",
                                     n |-> Sum(local.insufficient)])]
       [] OTHER -> same

\* An execution is between its first and its last call.
Running(local) == local.pc \notin {"preview", "done"}

\* One call of execution p.
RaceStep(p) ==
  /\ last.op = "race"
  /\ last.procs[p].pc # "done"
  /\ \E r \in {apply_step(p, proxy_cards, decklists, deck_entries, last.procs[p],
                          last.targets[p])} :
       /\ proxy_cards' = r.cards
       /\ decklists' = r.decks
       /\ deck_entries' = r.entries
       /\ last' = [last EXCEPT
                     !.procs[p] = r.local,
                     !.overlapped = @ \/ \E q \in Procs \ {p} : Running(last.procs[q])]

NextRace == \E p \in Procs : RaceStep(p)

SpecRace == InitRace /\ [][NextRace]_vars

\* What the two applies leave when one runs after the other.
Serial(earlier, later) ==
  LET one == apply_deck_update(last.start.cards, last.start.decks, last.start.entries,
               RaceConfigs[earlier].url, RaceConfigs[earlier].format,
               RaceConfigs[earlier].name,
               [ok |-> TRUE, cards |-> last.targets[earlier]],
               existing_deck(last.start.decks, RaceConfigs[earlier].name,
                             RaceConfigs[earlier].format),
               [ok |-> TRUE, cards |-> last.targets[earlier]],
               existing_deck(last.start.decks, RaceConfigs[earlier].name,
                             RaceConfigs[earlier].format))
      two == apply_deck_update(one.cards, one.decks, one.entries,
               RaceConfigs[later].url, RaceConfigs[later].format,
               RaceConfigs[later].name,
               [ok |-> TRUE, cards |-> last.targets[later]],
               existing_deck(one.decks, RaceConfigs[later].name,
                             RaceConfigs[later].format),
               [ok |-> TRUE, cards |-> last.targets[later]],
               existing_deck(one.decks, RaceConfigs[later].name,
                             RaceConfigs[later].format))
  IN [cards |-> two.cards, decks |-> two.decks, entries |-> two.entries,
      previews |-> [p \in Procs |-> IF p = earlier THEN one.preview ELSE two.preview]]

\* What the two executions have left.
Outcome2 ==
  [cards |-> proxy_cards, decks |-> decklists, entries |-> deck_entries,
   previews |-> [p \in Procs |-> last.procs[p].preview]]

BothDone == last.op = "race" /\ \A p \in Procs : last.procs[p].pc = "done"

\* The copies of a card the entries of the decks hold.
RECURSIVE Required(_, _, _)
Required(entries, ids, card) ==
  IF ids = {}
  THEN 0
  ELSE LET id == CHOOSE d \in ids : TRUE
       IN Get(entries[id], card) + Required(entries, ids \ {id}, card)

\* A deck is left with fewer allocated copies than the decks require.
UnderAllocated ==
  \E card \in DOMAIN proxy_cards :
    proxy_cards[card].quantity_owned - proxy_cards[card].quantity_available
      < Required(deck_entries, DOMAIN deck_entries, card)

ShortageReported ==
  \E p \in Procs :
    \E i \in DOMAIN last.procs[p].preview.errors :
      last.procs[p].preview.errors[i].text = "Warning: Could not fully allocate cards"

\* C20: two apply_deck_update executions of which one makes all its calls
\* before the other makes its first leave what the two applies in that order
\* leave: no shortage is reported and no deck is left with fewer allocated
\* copies than it requires.  The witness is an interleaving of the calls
\* that leaves what neither order leaves.
C20_SerialAppliesAreCorrect ==
  (BothDone /\ ~last.overlapped) =>
    /\ Outcome2 \in {Serial(1, 2), Serial(2, 1)}
    /\ ~ShortageReported
    /\ ~UnderAllocated

\* C20 witness: both executions are done, the calls were interleaved, what
\* is left is what neither serial order leaves, the second allocation of one
\* execution has reported a shortage and a deck has fewer copies allocated
\* than it requires.
C20_Witness ==
  /\ BothDone
  /\ last.overlapped
  /\ Outcome2 \notin {Serial(1, 2), Serial(2, 1)}
  /\ ShortageReported
  /\ UnderAllocated

(***************************************************************************)
(* parse_cardlist (SpecParse).  A line is the sequence of its characters.  *)
(***************************************************************************)
MaxLineLen == 4

MaxLines == 2

\* The characters of the lines: a decimal digit, a digit that is no decimal
\* ("sup2" stands for U+00B2 SUPERSCRIPT TWO), a letter, the comment sign
\* and the space.
Chars == {"1", "sup2", "a", "#", " "}

Lines == UNION {[1..n -> Chars] : n \in 0..MaxLineLen}

CardLists == UNION {[1..n -> Lines] : n \in 0..MaxLines}

\* str.isdigit() of one character.
isdigit_char(c) == c \in {"1", "sup2"}

\* str.isdigit(): the string is not empty and all its characters are digits.
isdigit(s) == s # <<>> /\ \A i \in DOMAIN s : isdigit_char(s[i])

RECURSIVE lstrip(_)
lstrip(s) == IF s # <<>> /\ Head(s) = " " THEN lstrip(Tail(s)) ELSE s

RECURSIVE rstrip(_)
rstrip(s) == IF s # <<>> /\ s[Len(s)] = " " THEN rstrip(SubSeq(s, 1, Len(s) - 1)) ELSE s

\* str.strip()
strip(s) == rstrip(lstrip(s))

\* str.split(" ", 1): the string cut at its first space.
split(s) ==
  IF \E i \in DOMAIN s : s[i] = " "
  THEN LET i == CHOOSE k \in DOMAIN s : s[k] = " " /\ \A j \in 1..(k - 1) : s[j] # " "
       IN <<SubSeq(s, 1, i - 1), SubSeq(s, i + 1, Len(s))>>
  ELSE <<s>>

\* int() accepts the decimal digits only.
int_raises(s) == \E i \in DOMAIN s : s[i] # "1"

RECURSIVE int(_)
\* int() of a string of decimal digits.
int(s) == IF s = <<>> THEN 0 ELSE 10 * int(SubSeq(s, 1, Len(s) - 1)) + 1

\* The body of the loop of parse_cardlist for one line.
parse_line(line, acc) ==
  IF line = <<>> \/ Head(line) = "#" \/ ~isdigit_char(Head(line))
  THEN acc
  ELSE LET parts == split(strip(line))
       IN IF Len(parts) # 2
          THEN [acc EXCEPT !.line_errors = Append(@, line)]
          ELSE IF ~isdigit(parts[1])
          THEN [acc EXCEPT !.line_errors = Append(@, line)]
          ELSE IF int_raises(parts[1])
          THEN [acc EXCEPT !.raised = "ValueError"]
          ELSE [acc EXCEPT !.cards = add_to_total(@, parts[2], int(parts[1]))]

RECURSIVE parse_loop(_, _, _)
parse_loop(card_list, i, acc) ==
  IF i > Len(card_list) \/ acc.raised # ""
  THEN acc
  ELSE parse_loop(card_list, i + 1, parse_line(card_list[i], acc))

\* parse_cardlist: the dict it returns, the CardListInputError it raises
\* with its lines, or the ValueError of int().
parse_cardlist(card_list) ==
  LET parsed == parse_loop(card_list, 1,
                           [line_errors |-> <<>>, cards |-> <<>>, raised |-> ""])
  IN IF parsed.raised # ""
     THEN [ok |-> FALSE, cards |-> <<>>, error |-> parsed.raised, lines |-> <<>>]
     ELSE IF Len(parsed.line_errors) > 0
     THEN [ok |-> FALSE, cards |-> <<>>, error |-> "CardListInputError",
           lines |-> parsed.line_errors]
     ELSE [ok |-> TRUE, cards |-> parsed.cards, error |-> "", lines |-> <<>>]

InitParse ==
  \E card_list \in CardLists :
    /\ proxy_cards = NoCards
    /\ decklists = NoDecklists
    /\ deck_entries = NoEntries
    /\ last = [op |-> "args", card_list |-> card_list]

ParseCardlist ==
  /\ last.op = "args"
  /\ last' = [op |-> "parse_cardlist", card_list |-> last.card_list,
              returned |-> parse_cardlist(last.card_list)]
  /\ UNCHANGED <<proxy_cards, decklists, deck_entries>>

NextParse == ParseCardlist

SpecParse == InitParse /\ [][NextParse]_vars

\* A line the parser skips.
Skipped(line) == line = <<>> \/ line[1] \notin {"1", "sup2"}

\* The end of the line without its trailing spaces.
End(line) == CHOOSE n \in 1..Len(line) : line[n] # " " /\ \A j \in (n + 1)..Len(line) : line[j] = " "

\* The places of the spaces inside a line that starts with a digit.
Spaces(line) == {i \in 1..End(line) : line[i] = " "}

\* A line that starts with a digit and has no card name or a quantity token
\* that is no number.
Offending(line) ==
  /\ ~Skipped(line)
  /\ \/ Spaces(line) = {}
     \/ \E i \in 1..Len(line) : line[i] # "1" /\ \A s \in Spaces(line) : i < s

\* The quantity and the card name of a line that is neither.
QtyOf(line) == LET s == CHOOSE k \in Spaces(line) : \A j \in Spaces(line) : k <= j IN IF s = 2 THEN 1 ELSE IF s = 3 THEN 11 ELSE 111

NameOf(line) == LET s == CHOOSE k \in Spaces(line) : \A j \in Spaces(line) : k <= j IN SubSeq(line, s + 1, End(line))

CardLines(card_list) == {i \in DOMAIN card_list : ~Skipped(card_list[i]) /\ ~Offending(card_list[i])}

RECURSIVE QtySum(_, _, _)
QtySum(card_list, places, name) ==
  IF places = {}
  THEN 0
  ELSE LET i == CHOOSE k \in places : TRUE
       IN (IF NameOf(card_list[i]) = name THEN QtyOf(card_list[i]) ELSE 0)
          + QtySum(card_list, places \ {i}, name)

\* C21: parse_cardlist skips the lines that are empty, start with '#' or do
\* not start with a digit; when a line that starts with a digit has no card
\* name or a quantity token that is no number it raises CardListInputError
\* with all those lines, in their order, and returns no map; otherwise it
\* returns the map of the names of the card lines, each with the sum of the
\* quantities of its lines.
C21_ParseCardlist ==
  last.op = "parse_cardlist" =>
    LET card_list == last.card_list
        r == last.returned
    IN IF \E i \in DOMAIN card_list : Offending(card_list[i])
       THEN /\ ~r.ok
            /\ r.error = "CardListInputError"
            /\ r.lines = SelectSeq(card_list, Offending)
            /\ r.cards = <<>>
       ELSE /\ r.ok
            /\ Keys(r.cards) = {NameOf(card_list[i]) : i \in CardLines(card_list)}
            /\ Len(r.cards) = Cardinality(Keys(r.cards))
            /\ \A name \in Keys(r.cards) :
                 Get(r.cards, name) = QtySum(card_list, CardLines(card_list), name)

(***************************************************************************)
(* The claims on the auto-provisioning of one recorded apply_deck_update.  *)
(***************************************************************************)
\* The available copies of a card of the recorded ledger once the copies of
\* the updated deck are released.
AfterRelease(c) ==
  last.cards[c].quantity_available
    + (IF last.existing = None
       THEN 0
       ELSE Get(get_decklist_cards(last.entries, last.existing), c))

\* The cards of the fetched decklist that are short at the first allocation.
ShortCards ==
  {c \in Keys(last.fetched2.cards) :
     c \notin DOMAIN last.cards \/ AfterRelease(c) < Get(last.fetched2.cards, c)}

\* The shortage S of a card at the first allocation.
Shortage(c) ==
  IF c \notin ShortCards
  THEN 0
  ELSE IF c \notin DOMAIN last.cards
  THEN Get(last.fetched2.cards, c)
  ELSE Get(last.fetched2.cards, c) - AfterRelease(c)

RECURSIVE ShortageSum(_)
ShortageSum(names) ==
  IF names = {}
  THEN 0
  ELSE LET c == CHOOSE n \in names : TRUE IN Shortage(c) + ShortageSum(names \ {c})

OwnedBefore(c) == IF c \in DOMAIN last.cards THEN last.cards[c].quantity_owned ELSE 0

SuccessfulApply ==
  /\ last.op = "apply"
  /\ last.fetched1.ok /\ last.fetched2.ok
  /\ last.preview.errors = <<>>

\* C22: a successful apply_deck_update whose first allocation is short by S
\* leaves every card of S owned S(c) times more and available 0 times, every
\* other card owned as before and available as after the release and the
\* allocation of the decklist, and one info message for sum(S) created
\* cards; without a shortage no owned quantity changes and there is no info
\* message.
C22_ExactProvision ==
  SuccessfulApply =>
    /\ DOMAIN proxy_cards = DOMAIN last.cards \cup ShortCards
    /\ \A c \in DOMAIN proxy_cards :
         /\ proxy_cards[c].quantity_owned = OwnedBefore(c) + Shortage(c)
         /\ proxy_cards[c].quantity_available =
              IF c \in ShortCards
              THEN 0
              ELSE AfterRelease(c) - Get(last.fetched2.cards, c)
    /\ last.preview.info_messages =
         IF ShortCards = {}
         THEN <<>>
         ELSE <<[text |-> "Info: Created proxy cards for allocation",
                 n |-> ShortageSum(ShortCards)]>>

\* C22 witness: a successful apply to an existing deck that held the card,
\* with the card short by less than its quantity and another card in the
\* ledger.
C22_Witness ==
  /\ SuccessfulApply
  /\ last.existing # None
  /\ \E c \in ShortCards :
       /\ 0 < Shortage(c) /\ Shortage(c) < Get(last.fetched2.cards, c)
       /\ Get(get_decklist_cards(last.entries, last.existing), c) > 0
  /\ DOMAIN last.cards \ ShortCards # {}

(***************************************************************************)
(* The order of the calls of one apply_deck_update.                        *)
(***************************************************************************)
\* The deck an execution updates, once it is stored.
DeckOf(p) ==
  {d \in DOMAIN decklists : /\ decklists[d].name = RaceConfigs[p].name
                            /\ decklists[d].format = RaceConfigs[p].format}

\* The composition the deck of an execution had when the executions started.
OldComposition(p) ==
  IF p \in DOMAIN last.start.entries THEN last.start.entries[p] ELSE <<>>

\* The call an execution makes at pc, with what it finds and what it leaves.
CallInOrder(p) ==
  LET l == last.procs[p]
      after == last'.procs[p]
      T == last.targets[p]
  IN CASE l.pc = "preview" ->
            /\ after.pc = "get_decklist"
            /\ UNCHANGED <<proxy_cards, decklists, deck_entries>>
       [] l.pc = "get_decklist" ->
            /\ after.pc = IF DeckOf(p) # {} THEN "release_decklist_allocation"
                                           ELSE "create_decklist"
            /\ (DeckOf(p) # {}) = (after.existing_deck # None)
            /\ UNCHANGED <<proxy_cards, decklists, deck_entries>>
       [] l.pc = "release_decklist_allocation" ->
            /\ l.existing_deck \in DeckOf(p)
            /\ get_decklist_cards(deck_entries, l.existing_deck) = OldComposition(p)
            /\ \A c \in DOMAIN proxy_cards :
                 proxy_cards'[c].quantity_available =
                   proxy_cards[c].quantity_available + Get(OldComposition(p), c)
            /\ UNCHANGED <<decklists, deck_entries>>
            /\ after.pc = "update_decklist_cards"
       [] l.pc = "create_decklist" ->
            /\ l.existing_deck = None
            /\ DeckOf(p) = {}
            /\ DeckOf(p)' = {after.new_deck_id}
            /\ get_decklist_cards(deck_entries, after.new_deck_id) = <<>>
            /\ UNCHANGED <<proxy_cards, deck_entries>>
            /\ after.pc = "update_decklist_cards"
       [] l.pc = "update_decklist_cards" ->
            /\ Cardinality(DeckOf(p)) = 1
            /\ \A d \in DeckOf(p) :
                 /\ get_decklist_cards(deck_entries, d) = OldComposition(p)
                 /\ Items(get_decklist_cards(deck_entries', d)) = Items(T)
            /\ UNCHANGED <<proxy_cards, decklists>>
            /\ after.pc = IF l.existing_deck # None THEN "update_decklist_url"
                                                    ELSE "allocate_cards"
       [] l.pc = "update_decklist_url" ->
            /\ l.existing_deck # None
            /\ decklists'[l.existing_deck].url = RaceConfigs[p].url
            /\ UNCHANGED <<proxy_cards, deck_entries>>
            /\ after.pc = "allocate_cards"
       [] l.pc = "allocate_cards" ->
            /\ l.insufficient = <<>>
            /\ \A d \in DeckOf(p) :
                 /\ Items(get_decklist_cards(deck_entries, d)) = Items(T)
                 /\ decklists[d].url = RaceConfigs[p].url
            /\ UNCHANGED <<decklists, deck_entries>>
            /\ after.pc = IF after.insufficient # <<>> THEN "add_cards" ELSE "done"
       [] l.pc = "add_cards" ->
            /\ l.insufficient # <<>>
            /\ \A c \in Keys(l.insufficient) :
                 proxy_cards'[c].quantity_owned =
                   (IF c \in DOMAIN proxy_cards THEN proxy_cards[c].quantity_owned ELSE 0)
                   + Get(l.insufficient, c)
            /\ UNCHANGED <<decklists, deck_entries>>
            /\ after.pc = "allocate_cards again"
       [] l.pc = "allocate_cards again" ->
            /\ l.insufficient # <<>>
            /\ UNCHANGED <<decklists, deck_entries>>
            /\ after.pc = "done"
       [] OTHER -> FALSE

\* C23: the calls of apply_deck_update come in one order.  For an existing
\* deck the release reads the old composition and is made before the
\* composition is replaced, which is before the URL is updated, which is
\* before the first allocation; cards are added only after an allocation
\* that reported a shortage and before the second allocation; for a new deck
\* the creation is before the composition is stored, which is before the
\* allocation, and nothing is released.
C23_StepsInOrder ==
  [][\A p \in Procs : last'.procs[p] # last.procs[p] => CallInOrder(p)]_vars

\* C23 witness: an execution for an existing deck has made all its calls,
\* the addition of cards and the second allocation among them.
C23_Witness ==
  /\ last.op = "race"
  /\ \E p \in Procs :
       /\ last.procs[p].pc = "done"
       /\ last.procs[p].existing_deck # None
       /\ last.procs[p].insufficient # <<>>
       /\ last.procs[p].preview.info_messages # <<>>

(***************************************************************************)
(* The order of one recorded preview_deck_update.                          *)
(***************************************************************************)
\* The available copies of a card in the recorded ledger.
AvailableNow(c) ==
  IF c \in DOMAIN last.cards THEN last.cards[c].quantity_available ELSE 0

\* The availability an addition is compared with: the simulated one if the
\* removal releases the card and it is not zero, the current one otherwise.
AvailableConsidering(c) ==
  LET toRemove == last.preview.swaps.cards_to_remove
  IN IF c \in Keys(toRemove) /\ AvailableNow(c) + Get(toRemove, c) # 0
     THEN AvailableNow(c) + Get(toRemove, c)
     ELSE AvailableNow(c)

\* C24: the preview of an existing deck orders, of the cards to add, those
\* whose quantity is above the availability considered, each with the
\* difference; the preview of a deck that does not exist adds the whole
\* decklist, removes nothing and orders, of the decklist, the cards without
\* a record with their quantity and the cards above their availability with
\* the difference.
C24_OrderNeeds ==
  (last.op = "preview" /\ last.fetched.ok) =>
    LET toAdd == last.preview.swaps.cards_to_add
        order == last.preview.cards_to_order
    IN /\ Len(order) = Cardinality(Keys(order))
       /\ IF last.existing # None
          THEN Items(order) =
                 {[name |-> c, qty |-> Get(toAdd, c) - AvailableConsidering(c)] :
                    c \in {k \in Keys(toAdd) : Get(toAdd, k) > AvailableConsidering(k)}}
          ELSE /\ toAdd = last.fetched.cards
               /\ last.preview.swaps.cards_to_remove = <<>>
               /\ Items(order) =
                    {[name |-> c, qty |-> Get(toAdd, c) - AvailableNow(c)] :
                       c \in {k \in Keys(toAdd) :
                                k \notin DOMAIN last.cards \/ Get(toAdd, k) > AvailableNow(k)}}

\* C24 witness: the preview of an existing deck removes a card, adds another
\* and orders the addition, with copies of the removed card available.
C24_Witness ==
  /\ last.op = "preview" /\ last.fetched.ok
  /\ last.existing # None
  /\ last.preview.swaps.cards_to_remove # <<>>
  /\ last.preview.cards_to_order # <<>>
  /\ \E c \in Keys(last.preview.swaps.cards_to_remove) : AvailableNow(c) > 0

\* C25: an apply_deck_update whose preview fetched the decklist and whose
\* second fetch fails returns a result with an 'Error applying update' entry
\* and leaves the ledger, the decklists and their entries as they were.
C25_SecondFetchFails ==
  (last.op = "apply" /\ last.fetched1.ok /\ ~last.fetched2.ok) =>
    /\ \E i \in DOMAIN last.preview.errors :
         last.preview.errors[i].text = "Error applying update"
    /\ proxy_cards = last.cards
    /\ decklists = last.decks
    /\ deck_entries = last.entries

\* C25 witness: the second fetch has failed in the apply of another decklist
\* to an existing deck that holds allocated cards.
C25_Witness ==
  /\ last.op = "apply" /\ last.fetched1.ok /\ ~last.fetched2.ok
  /\ last.existing # None
  /\ Sum(get_decklist_cards(last.entries, last.existing)) > 0
  /\ Items(last.fetched1.cards) # Items(get_decklist_cards(last.entries, last.existing))
  /\ last.preview.cards_to_order # <<>>

(***************************************************************************)
(* The split of the additions in the written preview (SpecSplit).          *)
(***************************************************************************)
\* Faulty variant of split_one: a card that is ordered in part is put in the
\* ordered bucket with its whole quantity.
split_one_whole(acc, card, qty, order) == IF card \in Keys(order) THEN [acc EXCEPT !.cards_to_order = Append(@, [name |-> card, qty |-> qty])] ELSE [acc EXCEPT !.cards_available = Append(@, [name |-> card, qty |-> qty])]

\* The body of the loop over preview.swaps.cards_to_add.
split_one(acc, card, qty, order) ==
  IF card \in Keys(order)
  THEN LET order_qty == Get(order, card)
       IN IF qty > order_qty
          THEN [acc EXCEPT
                  !.cards_available = Append(@, [name |-> card, qty |-> qty - order_qty]),
                  !.cards_to_order = Append(@, [name |-> card, qty |-> order_qty])]
          ELSE [acc EXCEPT !.cards_to_order = Append(@, [name |-> card, qty |-> qty])]
  ELSE [acc EXCEPT !.cards_available = Append(@, [name |-> card, qty |-> qty])]

RECURSIVE split_loop(_, _, _, _)
split_loop(cards_to_add, order, i, acc) ==
  IF i > Len(cards_to_add)
  THEN acc
  ELSE split_loop(cards_to_add, order, i + 1,
                  split_one(acc, cards_to_add[i].name, cards_to_add[i].qty, order))

\* The two buckets _write_single_preview writes for the additions.
split_additions(cards_to_add, order) ==
  split_loop(cards_to_add, order, 1, [cards_available |-> <<>>, cards_to_order |-> <<>>])

InitSplit ==
  \E cards_to_add \in Decklists, order \in Decklists :
    /\ proxy_cards = NoCards
    /\ decklists = NoDecklists
    /\ deck_entries = NoEntries
    /\ last = [op |-> "args", cards_to_add |-> cards_to_add, cards_to_order |-> order]

WriteSinglePreview ==
  /\ last.op = "args"
  /\ last' = [op |-> "write", cards_to_add |-> last.cards_to_add,
              cards_to_order |-> last.cards_to_order,
              written |-> split_additions(last.cards_to_add, last.cards_to_order)]
  /\ UNCHANGED <<proxy_cards, decklists, deck_entries>>

NextSplit == WriteSinglePreview

SpecSplit == InitSplit /\ [][NextSplit]_vars

\* C26: for every card to add, with quantity q, the quantity written as
\* available and the quantity written as ordered add up to q: a card that is
\* not in cards_to_order is written as available only, a card with an order
\* quantity o below q is written in both buckets with q - o and o, and a
\* card with o at least q is written as ordered only.
C26_SplitIsPartition ==
  last.op = "write" =>
    LET available == last.written.cards_available
        ordered == last.written.cards_to_order
        order == last.cards_to_order
    IN /\ Keys(available) \cup Keys(ordered) = Keys(last.cards_to_add)
       /\ Len(available) = Cardinality(Keys(available))
       /\ Len(ordered) = Cardinality(Keys(ordered))
       /\ \A c \in Keys(last.cards_to_add) :
            LET q == Get(last.cards_to_add, c)
                o == Get(order, c)
            IN /\ Get(available, c) + Get(ordered, c) = q
               /\ c \notin Keys(order) =>
                    c \in Keys(available) /\ c \notin Keys(ordered)
               /\ (c \in Keys(order) /\ o < q) =>
                    /\ c \in Keys(available) /\ Get(available, c) = q - o
                    /\ c \in Keys(ordered) /\ Get(ordered, c) = o
               /\ (c \in Keys(order) /\ o >= q) =>
                    c \in Keys(ordered) /\ c \notin Keys(available)

\* C26 witness: one card is written in both buckets, another as available
\* only.
C26_Witness ==
  /\ last.op = "write"
  /\ Keys(last.written.cards_available) \cap Keys(last.written.cards_to_order) # {}
  /\ Keys(last.written.cards_available) \ Keys(last.written.cards_to_order) # {}
  /\ Sum(last.written.cards_to_order) > 0

(***************************************************************************)
(* The system without proxy remove (SpecNoRemove): proxy add, deck updates *)
(* and deck deletions that keep the proxy cards.                           *)
(***************************************************************************)
\* deck delete with the second question, if asked, answered with no.
DeckDeleteKeepingProxies ==
  \E name \in {c.name : c \in DeckConfigs},
     format_name \in {c.format : c \in DeckConfigs} \cup {""}, confirm \in BOOLEAN :
    \E answer_delete \in (IF confirm THEN {TRUE} ELSE BOOLEAN) :
    \E deck \in first(find_deck(decklists, name, format_name)) :
      \E r \in {deck_delete(proxy_cards, decklists, deck_entries, deck,
                           confirm, answer_delete, FALSE)} :
         /\ proxy_cards' = r.cards
         /\ decklists' = r.decks
         /\ last' = Outcome("delete", deck # None,
                      IF r.message \in {"not found", "Failed to delete"}
                      THEN <<[text |-> r.message, n |-> 0]>>
                      ELSE <<>>,
                      <<>>)
         /\ UNCHANGED deck_entries

NextNoRemove ==
  \/ ProxyAdd
  \/ ApplyDeckUpdate
  \/ DeckDeleteKeepingProxies

SpecNoRemove == Init /\ [][NextNoRemove]_vars

\* The copies of a card in the entries of the stored decks.
RECURSIVE InDecks(_, _)
InDecks(ids, card) ==
  IF ids = {}
  THEN 0
  ELSE LET id == CHOOSE d \in ids : TRUE
       IN Get(get_decklist_cards(deck_entries, id), card) + InDecks(ids \ {id}, card)

\* The card names of the ledger and of the entries of the stored decks.
KnownCards ==
  DOMAIN proxy_cards
    \cup UNION {Keys(get_decklist_cards(deck_entries, d)) : d \in DOMAIN decklists}

\* C27: as long as proxy remove is not called, after every proxy add, deck
\* update and deck deletion that keeps the proxy cards, every card has
\* quantity_owned - quantity_available equal to the sum of its entry
\* quantities over the stored decks.
C27_Reconciliation ==
  \A c \in KnownCards :
    /\ c \in DOMAIN proxy_cards
    /\ proxy_cards[c].quantity_owned - proxy_cards[c].quantity_available
         = InDecks(DOMAIN decklists, c)

\* C27 witness: after the deletion of a deck, another deck holds a card of
\* which copies are available and copies are allocated.
C27_Witness ==
  /\ last.op = "delete" /\ last.errors = {}
  /\ decklists # NoDecklists
  /\ DOMAIN deck_entries \ DOMAIN decklists # {}
  /\ \E c \in DOMAIN proxy_cards :
       /\ proxy_cards[c].quantity_available > 0
       /\ InDecks(DOMAIN decklists, c) > 0

(***************************************************************************)
(* The preview of a recorded apply_deck_update against what it creates.    *)
(***************************************************************************)
\* The cards the recorded apply has created: the growth of quantity_owned.
CreatedOf(c) ==
  (IF c \in DOMAIN proxy_cards THEN proxy_cards[c].quantity_owned ELSE 0)
    - OwnedBefore(c)

\* C28: when both fetches of an apply_deck_update return the same decklist,
\* the cards_to_order of its preview are, card by card, the quantities the
\* apply creates in the ledger.
C28_PreviewPredictsApply ==
  (last.op = "apply" /\ last.fetched1.ok /\ last.fetched2 = last.fetched1) =>
    \A c \in DOMAIN proxy_cards \cup Keys(last.preview.cards_to_order) :
      Get(last.preview.cards_to_order, c) = CreatedOf(c)

(***************************************************************************)
(* The batch preview against the recorded apply_batch_update.              *)
(***************************************************************************)
\* The results preview_batch_update returns from the tables the recorded
\* batch started from, with the same fetched decklists.
BatchPreviewOf ==
  preview_batch_update(last.cards, last.entries, last.deck_configs, last.fetched1,
    [i \in DOMAIN last.deck_configs |->
       existing_deck(last.decks, last.deck_configs[i].name,
                     last.deck_configs[i].format)]).deck_updates

\* C29: the total_order of preview_batch_update is, card by card, the
\* quantity apply_batch_update creates in the ledger from the same state
\* with the same decklists, and the total_order of the results of that
\* apply_batch_update.
C29_BatchPreviewPredictsApply ==
  (/\ last.op = "apply_batch"
   /\ \A i \in DOMAIN last.deck_configs :
        last.fetched1[i].ok /\ last.fetched2[i] = last.fetched1[i])
  => \A c \in DOMAIN proxy_cards \cup Keys(total_order(BatchPreviewOf)) :
       /\ Get(total_order(BatchPreviewOf), c) = CreatedOf(c)
       /\ Get(total_order(BatchPreviewOf), c) = Get(total_order(last.deck_updates), c)

\* C30: for any two dicts, no card is both in cards_to_add and in
\* cards_to_remove, names compared without case; every quantity of the two
\* is above 0; and for every card the current quantity plus the added minus
\* the removed quantity is the new quantity.
C30_SwapConsistency ==
  last.op = "calculate_swaps" =>
    LET toAdd == last.swaps.cards_to_add
        toRemove == last.swaps.cards_to_remove
    IN /\ \A a \in Keys(toAdd), r \in Keys(toRemove) : ~SameCard(a, r)
       /\ \A i \in DOMAIN toAdd : toAdd[i].qty > 0
       /\ \A i \in DOMAIN toRemove : toRemove[i].qty > 0
       /\ \A c \in CardNames :
            CaseQty(last.current_cards, c) + CaseQty(toAdd, c) - CaseQty(toRemove, c)
              = CaseQty(last.new_cards, c)

(***************************************************************************)
(* One recorded preview_deck_update of any fetched decklist (SpecOrder).   *)
(***************************************************************************)
\* What the fetch of the preview returns: the decklists of CallFetches and a
\* decklist with a card in quantity 0 (the line "0 Will").
OrderFetches ==
  CallFetches \cup {[ok |-> TRUE, cards |-> <<[name |-> "Will", qty |-> 0]>>]}

CallPreviewFetched ==
  /\ last = Idle
  /\ \E config \in DeckConfigs, fetched \in OrderFetches :
       \E existing \in first(get_decklist(decklists, config.name, config.format)) :
         \E r \in {preview_deck_update(proxy_cards, deck_entries, config.format,
                                       config.name, fetched, existing)} :
            /\ proxy_cards' = r.cards
            /\ UNCHANGED <<decklists, deck_entries>>
            /\ last' = [op |-> "preview", config |-> config,
                        fetched |-> fetched, existing |-> existing,
                        cards |-> proxy_cards, preview |-> r.preview]

NextOrder == Run \/ CallPreviewFetched

SpecOrder == InitCalls /\ [][NextOrder]_vars

\* calculate_needed_cards of the additions of the recorded preview, against
\* the recorded ledger.
NeededForAdditions ==
  calculate_needed_cards(last.cards, last.preview.swaps.cards_to_add).cards_needed

PreviewOfExisting == last.op = "preview" /\ last.fetched.ok /\ last.existing # None

CallApplyAgain ==
  /\ last.op = "apply"
  /\ last.fetched1.ok /\ last.fetched2.ok
  /\ last.preview.errors = <<>>
  /\ \E existing \in first(get_decklist(decklists, last.config.name, last.config.format)) :
       \E r \in {apply_deck_update(proxy_cards, decklists, deck_entries,
                                   last.config.url, last.config.format,
                                   last.config.name, last.fetched1, existing,
                                   last.fetched2, existing)} :
          /\ proxy_cards' = r.cards
          /\ decklists' = r.decks
          /\ deck_entries' = r.entries
          /\ last' = [op |-> "apply_again", config |-> last.config,
                      fetched |-> last.fetched2, existing |-> existing,
                      cards |-> proxy_cards, decks |-> decklists,
                      entries |-> deck_entries, preview |-> r.preview]

NextAgain == Run \/ CallApply \/ CallApplyAgain

SpecAgain == InitCalls /\ [][NextAgain]_vars

\* C32: an apply_deck_update that follows one without errors, with the same
\* URL, format, name and fetched decklist, leaves the ledger, the decklists
\* and their entries as they were and returns no swaps, no cards to order
\* and no messages.
C32_ApplyIdempotent ==
  last.op = "apply_again" =>
    /\ last.existing # None
    /\ proxy_cards = last.cards
    /\ decklists = last.decks
    /\ deck_entries = last.entries
    /\ last.preview.swaps.cards_to_add = <<>>
    /\ last.preview.swaps.cards_to_remove = <<>>
    /\ last.preview.cards_to_order = <<>>
    /\ last.preview.info_messages = <<>>
    /\ last.preview.errors = <<>>

\* C32 witness: the second apply of a decklist of two cards to a deck, with
\* another deck stored and copies of a card available.
C32_Witness ==
  /\ last.op = "apply_again"
  /\ Len(last.fetched.cards) = 2
  /\ Cardinality(DOMAIN decklists) = 2
  /\ \E c \in DOMAIN proxy_cards : proxy_cards[c].quantity_available > 0

(***************************************************************************)
(* The deck store under the workflow (SpecStore): deck updates, batch      *)
(* updates and deck deletions from an empty database.                      *)
(***************************************************************************)
ApplyBatchUpdate ==
  \E deck_configs \in CallBatchFiles :
    \E fetched1 \in [DOMAIN deck_configs -> Fetches] :
      \E fetched2 \in [DOMAIN deck_configs -> Fetches] :
        /\ \A i \in DOMAIN deck_configs :
             fetched2[i] \in {fetched1[i], [ok |-> FALSE, cards |-> <<>>]}
        /\ \E r \in {apply_batch_update(proxy_cards, decklists, deck_entries,
                                        deck_configs, fetched1, fetched2)} :
             /\ InStock(r.cards)
             /\ \A id \in DOMAIN r.decks : id <= MaxDeckId
             /\ proxy_cards' = r.cards
             /\ decklists' = r.decks
             /\ deck_entries' = r.entries
             /\ last' = Outcome("apply_batch", FALSE, BatchErrors(r.deck_updates), <<>>)

NextStore ==
  \/ ApplyDeckUpdate
  \/ ApplyBatchUpdate
  \/ DeckDelete

SpecStore == Init /\ [][NextStore]_vars

\* C33: after any sequence of deck updates, batch updates and deck
\* deletions from an empty database no two decks have the same name and
\* format; an update of a stored name and format creates no second deck.
C33_NaturalKeyUnique ==
  \A d1, d2 \in DOMAIN decklists :
    (decklists[d1].name = decklists[d2].name
       /\ decklists[d1].format = decklists[d2].format) => d1 = d2

\* C33 witness: a batch without errors has updated a stored deck, under its
\* second URL, with another deck stored.
C33_Witness ==
  /\ last.op = "apply_batch" /\ last.errors = {}
  /\ Cardinality(DOMAIN decklists) = 2
  /\ \E d \in DOMAIN decklists : decklists[d].url = "u2" /\ decklists[d].format = "Modern"
  /\ \E d \in DOMAIN decklists : decklists[d].format = "Legacy"

(***************************************************************************)
(* One recorded deck delete command (SpecDeckDelete).                      *)
(***************************************************************************)
CallDeckDelete ==
  /\ last = Idle
  /\ \E name \in {c.name : c \in DeckConfigs},
        format_name \in {c.format : c \in DeckConfigs} \cup {""}, confirm \in BOOLEAN :
       \E answer_delete \in (IF confirm THEN {TRUE} ELSE BOOLEAN) :
       \E answer_proxies \in (IF confirm \/ ~answer_delete THEN {FALSE} ELSE BOOLEAN) :
       \E deck \in first(find_deck(decklists, name, format_name)) :
         \E r \in {deck_delete(proxy_cards, decklists, deck_entries, deck,
                              confirm, answer_delete, answer_proxies)} :
            /\ proxy_cards' = r.cards
            /\ decklists' = r.decks
            /\ UNCHANGED deck_entries
            /\ last' = [op |-> "deck_delete", deck |-> deck, confirm |-> confirm,
                        answer_proxies |-> answer_proxies, message |-> r.message,
                        cards |-> proxy_cards, decks |-> decklists]

NextDeckDelete == Run \/ CallDeckDelete

SpecDeckDelete == InitCalls /\ [][NextDeckDelete]_vars

\* The copies of a card in the entries of the given decks.
RECURSIVE EntrySum(_, _)
EntrySum(ids, card) ==
  IF ids = {}
  THEN 0
  ELSE LET id == CHOOSE d \in ids : TRUE
       IN Get(get_decklist_cards(deck_entries, id), card) + EntrySum(ids \ {id}, card)

\* The card names of the entries of the given decks.
EntryCards(ids) == UNION {Keys(get_decklist_cards(deck_entries, d)) : d \in ids}

\* Every card has at least the copies allocated that the given decks hold.
DecksAllocated(cards, ids) ==
  \A c \in EntryCards(ids) \cup DOMAIN cards :
    (IF c \in DOMAIN cards
     THEN cards[c].quantity_owned - cards[c].quantity_available
     ELSE 0) >= EntrySum(ids, c)

\* C34: after a deck deletion, with or without the removal of the deck's
\* proxy cards, every card still has at least the copies allocated that the
\* remaining decks hold, when it had those of all decks before.
C34_OtherDecksKeepCards ==
  (/\ last.op = "deck_delete" /\ last.message = "Deleted"
   /\ DecksAllocated(last.cards, DOMAIN last.decks))
  => DecksAllocated(proxy_cards, DOMAIN decklists)

(***************************************************************************)
(* One recorded release_decklist_allocation.                               *)
(***************************************************************************)
CallReleaseDecklistAllocation ==
  /\ last = Idle
  /\ \E decklist_id \in 1..MaxDeckId :
       /\ proxy_cards' = release_decklist_allocation(proxy_cards, deck_entries,
                                                     decklist_id)
       /\ UNCHANGED <<decklists, deck_entries>>
       /\ last' = [op |-> "release_decklist_allocation", decklist_id |-> decklist_id,
                   raised |-> FALSE, cards |-> proxy_cards]

\* C35: release_decklist_allocation(id) leaves the ledger release_cards
\* leaves for the deck's entries and raises when release_cards raises: the
\* available quantity of every card with a record grows by the entry's
\* quantity, a card without a record is skipped, and when a card's available
\* quantity would pass its owned quantity CardInsufficientQuantityError is
\* raised and the ledger is unchanged.
C35_ReleaseDecklistIsRelease ==
  last.op = "release_decklist_allocation" =>
    LET r == release_cards(last.cards, get_decklist_cards(deck_entries, last.decklist_id))
    IN /\ proxy_cards = r.cards
       /\ last.raised = r.raised

(***************************************************************************)
(* One recorded call of CardAllocationService (SpecFrame): last keeps the  *)
(* call's name, its argument and the ledger before it.                     *)
(***************************************************************************)
CallAllocateCards ==
  /\ last = Idle
  /\ \E cq \in Dicts :
       /\ proxy_cards' = allocate_cards(proxy_cards, cq).cards
       /\ UNCHANGED <<decklists, deck_entries>>
       /\ last' = [op |-> "allocate_cards", card_quantities |-> cq,
                   cards |-> proxy_cards]

CallReleaseCards ==
  /\ last = Idle
  /\ \E cq \in Dicts :
       /\ proxy_cards' = release_cards(proxy_cards, cq).cards
       /\ UNCHANGED <<decklists, deck_entries>>
       /\ last' = [op |-> "release_cards", card_quantities |-> cq,
                   cards |-> proxy_cards]

CallCalculateNeededCards ==
  /\ last = Idle
  /\ \E cq \in Dicts :
       /\ proxy_cards' = calculate_needed_cards(proxy_cards, cq).cards
       /\ UNCHANGED <<decklists, deck_entries>>
       /\ last' = [op |-> "calculate_needed_cards", card_quantities |-> cq,
                   cards |-> proxy_cards]

CallCheckAllocationFeasibility ==
  /\ last = Idle
  /\ \E cq \in Dicts :
       /\ proxy_cards' = check_allocation_feasibility(proxy_cards, cq).cards
       /\ UNCHANGED <<decklists, deck_entries>>
       /\ last' = [op |-> "check_allocation_feasibility", card_quantities |-> cq,
                   cards |-> proxy_cards]

NextFrame ==
  \/ Run
  \/ CallAllocateCards
  \/ CallReleaseCards
  \/ CallReleaseDecklistAllocation
  \/ CallCalculateNeededCards
  \/ CallCheckAllocationFeasibility

SpecFrame == InitCalls /\ [][NextFrame]_vars

\* The five calls of CardAllocationService.
AllocationCalls ==
  {"allocate_cards", "release_cards", "release_decklist_allocation",
   "calculate_needed_cards", "check_allocation_feasibility"}

\* The card names in the input of the recorded call: the keys of its dict,
\* or the cards of the deck whose id it was given.
NamedInCall ==
  IF last.op = "release_decklist_allocation"
  THEN {get_decklist_cards(deck_entries, last.decklist_id)[i].name :
          i \in 1..Len(get_decklist_cards(deck_entries, last.decklist_id))}
  ELSE {last.card_quantities[i].name : i \in 1..Len(last.card_quantities)}

\* C36: allocate_cards, release_cards, release_decklist_allocation,
\* check_allocation_feasibility and calculate_needed_cards leave the ledger
\* with the records it had, each with the quantity_owned it had, and with
\* the quantity_available it had unless the card is named in the input.  The
\* steps that are not one of these calls (add, remove, apply, deck delete)
\* are then the only ones that change quantity_owned.
C36_AllocationFrame ==
  last.op \in AllocationCalls =>
    /\ DOMAIN proxy_cards = DOMAIN last.cards
    /\ \A n \in DOMAIN last.cards :
         /\ proxy_cards[n].quantity_owned = last.cards[n].quantity_owned
         /\ n \notin NamedInCall =>
              proxy_cards[n].quantity_available = last.cards[n].quantity_available

\* An allocation that took copies of a named card while another card, not
\* named and with available copies, is in the ledger.
C36_Witness ==
  /\ last.op = "allocate_cards"
  /\ proxy_cards # last.cards
  /\ \E n \in DOMAIN last.cards :
       n \notin NamedInCall /\ last.cards[n].quantity_available > 0


====
